---- MODULE Spec2Model ----
(***************************************************************************)
(* A model of ibroadcast-tui: the library cache and view projection of     *)
(* DataManager (data_manager.py) and the library request of                *)
(* iBroadcastClient (api/client.py).                                       *)
(*                                                                         *)
(* Python values are tagged records, one field naming the type:            *)
(*   [null |-> TRUE]   None                                                *)
(*   [int  |-> n]      an int                                              *)
(*   [str  |-> s]      a str                                               *)
(*   [list |-> <<..>>] a list of values                                    *)
(*   [dict |-> <<..>>] a dict: its items in insertion order, each          *)
(*                     [k |-> key string, v |-> value]                     *)
(***************************************************************************)
EXTENDS Integers, Sequences, FiniteSets, TLC

VARIABLES
    file,       \* the cache file: [exists |-> FALSE] or [exists |-> TRUE, content |-> chunks]
    raw,        \* the raw library payload last handed to _cache_library_data
    saved,      \* outcome of the last _cache_library_data: "none", "ok", "failed"
    prev,       \* the cache file as it was when the last _cache_library_data began
    loaded,     \* what the last _load_cached_library returned, or NotLoaded
    rows,       \* the album rows last projected, or NoRows
    pc,         \* per caller: where its load_library_async call stands
    api_data,   \* per caller: the payload _load_from_api_sync returned, or NoData
    awaited,    \* per caller: outcome of the run_in_executor it last awaited
    result,     \* per caller: what load_library_async gave it, or NotLoaded
    woff,       \* per caller: chunks its _cache_library_data has written to its file object
    steps,      \* per caller: the events of its current call, in order
    observed,   \* per caller: what the _load_cached_library of its current call found in the file
    app_library_data, \* iBroadcastTUI.library_data
    notice,     \* per caller: the last notification its _load_library_async posted
    token_file, \* token_manager's token file: NoToken or a stored session
    token,      \* iBroadcastClient.token with user_id: NoSession or the token held in memory
    credentials,\* whether settings carry a username and a password
    gl_pc,      \* where the get_library call stands: "idle", "enter", "request", "done"
    depth,      \* how many get_library frames are below the running one
    sent,       \* the tokens of the library requests this call has posted, in order
    gl_result,  \* what get_library returned: NoResult, Success or Error(message)
    current_view, \* iBroadcastTUI.current_view: the collection the table shows
    projected,  \* the library the rows were last projected from, or NoData
    searched,   \* the last search_tracks call: its query, its limit and what it read, or NoSearch
    search_results, \* what the last search_tracks call returned
    ui_pc,      \* per load: where the connect_to_service that runs it stands
    ui_data,    \* per load: the outcome of its load_library_async, or NotLoaded
    ran,        \* the blocking steps taken so far, each with the thread that ran it
    show_library, \* iBroadcastTUI.show_library
    pending,    \* whether a recompose is scheduled (call_later)
    begun,      \* the loads in the order their load_library_async calls began
    applied,    \* the loads in the order their results were assigned to library_data
    duration,   \* the duration a track holds: a value, or Missing
    formatted,  \* how the data manager and the application formatted it, or NotFormatted
    tm_file,    \* token.json of the token manager: Absent or Holding(chunks)
    username,   \* settings.username of the running process: None or a str
    password,   \* settings.password of the running process: None or a str
    now,        \* time.time(), in whole seconds
    last_saved, \* the save_token that last succeeded, no delete_token after it: its argument as passed and as left, time and user, or NoSave
    tm_call,    \* the last call of the token manager, what it returned and, for is_token_valid, when, or NoCall
    session,    \* user_id, token and streaming_server of the iBroadcastClient of the running process
    posted,     \* how many login requests the client has posted
    auth,       \* what the last authenticate() returned, with the reply its login got, or NoAuth
    stop_event, \* AudioPlayer._stop_event: whether it is set
    pause_event,\* AudioPlayer._pause_event: whether it is set
    player_state, \* AudioPlayer.state
    current_track, \* AudioPlayer.current_track: the track of a play() call, or NoTrack
    playback_thread, \* AudioPlayer._playback_thread: the thread play() started last, or NoThread
    threads,    \* per playback thread: where its _playback_loop stands
    main,       \* the thread that calls play(), stop() and pause(): the call it is in and where
    track_ended,\* the on_track_end calls so far: the thread and whether its playback was stopped or replaced
    source,     \* StreamSource.generator: the chunks it has still to yield
    buffer,     \* StreamSource.buffer
    delivered,  \* the bytes the read() calls have returned so far, in order
    last_read,  \* the last read(size): its size and the data it returned, or NoRead
    selected    \* the last row selected in the table: its view, its index, the entity shown there and what the handler did, or NoSelection

normVars == <<raw, saved, prev, loaded, rows>>
pipeVars == <<pc, api_data, awaited, result, woff, steps, observed, app_library_data, notice>>
clientVars == <<token_file, token, credentials, gl_pc, depth, sent, gl_result>>
viewVars == <<current_view, projected>>
searchVars == <<searched, search_results>>
uiVars == <<ui_pc, ui_data, ran, show_library, pending, begun, applied>>
fmtVars == <<duration, formatted>>
tokVars == <<tm_file, username, password, now, last_saved, tm_call, session, posted, auth>>
selVars == <<selected>>
playVars == <<stop_event, pause_event, player_state, current_track, playback_thread,
              threads, main, track_ended>>
streamVars == <<source, buffer, delivered, last_read>>
audioVars == <<playVars, streamVars>>
vars == <<file, normVars, pipeVars, clientVars, viewVars, searchVars, uiVars, fmtVars, tokVars,
          selVars, audioVars>>

----------------------------------------------------------------------------
(* Python values *)

None == [null |-> TRUE]
I(n) == [int |-> n]
S(s) == [str |-> s]
L(q) == [list |-> q]
D(q) == [dict |-> q]
KV(key, val) == [k |-> key, v |-> val]

IsList(x) == "list" \in DOMAIN x
IsDict(x) == "dict" \in DOMAIN x
IsStr(x) == "str" \in DOMAIN x
IsInt(x) == "int" \in DOMAIN x
IsNone(x) == "null" \in DOMAIN x

\* Python truthiness: None, 0, "", [] and {} are false.
Truthy(x) ==
    CASE IsNone(x) -> FALSE
      [] IsInt(x) -> x.int # 0
      [] IsStr(x) -> x.str # ""
      [] IsList(x) -> x.list # <<>>
      [] IsDict(x) -> x.dict # <<>>

Digits == <<"0", "1", "2", "3", "4", "5", "6", "7", "8", "9">>

RECURSIVE ToStr(_)
ToStr(n) ==
    IF n < 0 THEN "-" \o ToStr(0 - n)
    ELSE IF n < 10 THEN Digits[n + 1]
    ELSE ToStr(n \div 10) \o Digits[(n % 10) + 1]

\* str(x). The repr of a list or dict is not spelled out: no key of the
\* model's libraries has that form, so one placeholder per type suffices.
PyStr(x) ==
    CASE IsNone(x) -> "None"
      [] IsInt(x) -> ToStr(x.int)
      [] IsStr(x) -> x.str
      [] IsList(x) -> "[...]"
      [] IsDict(x) -> "{...}"

\* dict operations on the item sequence
Keys(d) == {d.dict[i].k : i \in 1..Len(d.dict)}
Has(d, key) == key \in Keys(d)
Index(d, key) == CHOOSE i \in 1..Len(d.dict) : d.dict[i].k = key
Get(d, key, default) == IF Has(d, key) THEN d.dict[Index(d, key)].v ELSE default
\* d[key] = val: an existing key keeps its position, a new one is appended
Put(d, key, val) ==
    IF Has(d, key)
    THEN D([i \in 1..Len(d.dict) |->
               IF d.dict[i].k = key THEN KV(key, val) ELSE d.dict[i]])
    ELSE D(Append(d.dict, KV(key, val)))

\* Python dict equality ignores insertion order.
RECURSIVE PyEq(_, _)
PyEq(a, b) ==
    CASE IsDict(a) /\ IsDict(b) ->
            /\ Len(a.dict) = Len(b.dict)
            /\ Keys(a) = Keys(b)
            /\ \A key \in Keys(a) : PyEq(Get(a, key, None), Get(b, key, None))
      [] IsList(a) /\ IsList(b) ->
            /\ Len(a.list) = Len(b.list)
            /\ \A i \in 1..Len(a.list) : PyEq(a.list[i], b.list[i])
      [] OTHER -> a = b

----------------------------------------------------------------------------
(* json.dump / json.load.  The encoder emits the document as a sequence of *)
(* chunks: "{" key value ... "}" for a dict, "[" value ... "]" for a list, *)
(* and one chunk per scalar; the decoder rebuilds the value from the       *)
(* chunks and fails (JSONDecodeError) on anything that is not exactly one  *)
(* complete document.                                                      *)

P(c) == [p |-> c]
K(key) == [key |-> key]
IsP(t, c) == "p" \in DOMAIN t /\ t.p = c
IsKey(t) == "key" \in DOMAIN t
IsScalar(t) == IsNone(t) \/ IsInt(t) \/ IsStr(t)

RECURSIVE JsonDump(_), DumpItems(_, _), DumpMembers(_, _)
JsonDump(x) ==
    CASE IsList(x) -> <<P("[")>> \o DumpItems(x.list, 1) \o <<P("]")>>
      [] IsDict(x) -> <<P("{")>> \o DumpMembers(x.dict, 1) \o <<P("}")>>
      [] OTHER -> <<x>>
DumpItems(q, i) ==
    IF i > Len(q) THEN <<>> ELSE JsonDump(q[i]) \o DumpItems(q, i + 1)
DumpMembers(q, i) ==
    IF i > Len(q) THEN <<>>
    ELSE <<K(q[i].k)>> \o JsonDump(q[i].v) \o DumpMembers(q, i + 1)

\* A parse result: [ok |-> TRUE, v |-> value, next |-> index after it] or Bad.
Bad == [ok |-> FALSE]
Good(val, nxt) == [ok |-> TRUE, v |-> val, next |-> nxt]

RECURSIVE ParseValue(_, _), ParseItems(_, _, _), ParseMembers(_, _, _)
ParseValue(t, i) ==
    IF i > Len(t) THEN Bad
    ELSE IF IsScalar(t[i]) THEN Good(t[i], i + 1)
    ELSE IF IsP(t[i], "[") THEN ParseItems(t, i + 1, <<>>)
    ELSE IF IsP(t[i], "{") THEN ParseMembers(t, i + 1, D(<<>>))
    ELSE Bad
ParseItems(t, i, acc) ==
    IF i > Len(t) THEN Bad
    ELSE IF IsP(t[i], "]") THEN Good(L(acc), i + 1)
    ELSE LET r == ParseValue(t, i)
         IN IF r.ok THEN ParseItems(t, r.next, Append(acc, r.v)) ELSE Bad
\* a repeated key keeps its first position and takes the last value
ParseMembers(t, i, acc) ==
    IF i > Len(t) THEN Bad
    ELSE IF IsP(t[i], "}") THEN Good(acc, i + 1)
    ELSE IF ~IsKey(t[i]) THEN Bad
    ELSE LET r == ParseValue(t, i + 1)
         IN IF r.ok THEN ParseMembers(t, r.next, Put(acc, t[i].key, r.v)) ELSE Bad

\* json.load of a whole file: [ok, v], ok = FALSE for JSONDecodeError
JsonLoad(t) ==
    LET r == ParseValue(t, 1)
    IN IF r.ok /\ r.next = Len(t) + 1 THEN [ok |-> TRUE, v |-> r.v] ELSE Bad

----------------------------------------------------------------------------
(* A call's outcome: Ret(v) for a return value, Raised for an exception. *)

Ret(val) == [ok |-> TRUE, v |-> val]
Raised == [ok |-> FALSE]

----------------------------------------------------------------------------
(* The Normalizer: DataManager._preprocess_data and its helpers. *)

\* the artist a track is counted under (the body of the loop of
\* _compute_track_counts): str(track[6]) for a list of seven or more
\* positions, the raw artist_id of a dict, None otherwise
TrackArtistKey(track_data) ==
    IF IsList(track_data) /\ Len(track_data.list) >= 7
    THEN S(PyStr(track_data.list[7]))
    ELSE IF IsDict(track_data) THEN Get(track_data, "artist_id", None)
    ELSE None

\* track_counts.get(key, 0) on the dict built by _compute_track_counts,
\* a function from keys (values) to counts
CountGet(track_counts, key) ==
    IF key \in DOMAIN track_counts THEN track_counts[key] ELSE 0

RECURSIVE CountLoop(_, _, _)
CountLoop(items, i, acc) ==
    IF i > Len(items) THEN Ret(acc)
    ELSE LET artist_id == TrackArtistKey(items[i].v)
         IN IF ~Truthy(artist_id) THEN CountLoop(items, i + 1, acc)
            \* a list or dict is unhashable: track_counts[artist_id] raises TypeError
            ELSE IF IsList(artist_id) \/ IsDict(artist_id) THEN Raised
            ELSE CountLoop(items, i + 1,
                    [key \in DOMAIN acc \cup {artist_id} |->
                        CountGet(acc, key) + (IF key = artist_id THEN 1 ELSE 0)])

\* tracks.values() raises AttributeError unless tracks is a dict
_compute_track_counts(tracks) ==
    IF ~IsDict(tracks) THEN Raised
    ELSE CountLoop(tracks.dict, 1, [key \in {} |-> 0])

\* a dict artist's count added to the track_count it already carries
ProcessedArtistAdding(artist_id, artist_data, track_counts) ==
    IF IsList(artist_data)
    THEN D(<<KV("id", S(artist_id)),
             KV("name", IF Truthy(artist_data) THEN artist_data.list[1]
                        ELSE S("Unknown Artist")),
             KV("track_count", I(CountGet(track_counts, S(artist_id))))>>)
    ELSE IF IsDict(artist_data)
    THEN LET held == Get(artist_data, "track_count", I(0))
         IN Put(artist_data, "track_count",
                I((IF IsInt(held) THEN held.int ELSE 0)
                      + CountGet(track_counts, S(artist_id))))
    ELSE D(<<KV("id", S(artist_id)),
             KV("name", S("Unknown Artist")),
             KV("track_count", I(CountGet(track_counts, S(artist_id))))>>)

ProcessedArtist(artist_id, artist_data, track_counts) ==
    IF IsList(artist_data)
    THEN D(<<KV("id", S(artist_id)),
             KV("name", IF Truthy(artist_data) THEN artist_data.list[1]
                        ELSE S("Unknown Artist")),
             KV("track_count", I(CountGet(track_counts, S(artist_id))))>>)
    ELSE IF IsDict(artist_data)
    THEN Put(artist_data, "track_count", I(CountGet(track_counts, S(artist_id))))
    ELSE D(<<KV("id", S(artist_id)),
             KV("name", S("Unknown Artist")),
             KV("track_count", I(CountGet(track_counts, S(artist_id))))>>)

\* artists.items() raises AttributeError unless artists is a dict
_add_track_counts_to_artists(artists, track_counts) ==
    IF ~IsDict(artists) THEN Raised
    ELSE Ret(D([i \in 1..Len(artists.dict) |->
                  KV(artists.dict[i].k,
                     ProcessedArtist(artists.dict[i].k, artists.dict[i].v,
                                     track_counts))]))

_preprocess_data(data) ==
    IF Has(data, "tracks") /\ Has(data, "artists")
    THEN LET track_counts == _compute_track_counts(Get(data, "tracks", None))
         IN IF ~track_counts.ok THEN Raised
            ELSE LET artists == _add_track_counts_to_artists(
                                    Get(data, "artists", None), track_counts.v)
                 IN IF ~artists.ok THEN Raised
                    ELSE Ret(Put(data, "artists", artists.v))
    ELSE Ret(data)

----------------------------------------------------------------------------
(* str.lower() and the order of str, on the strings of the model's         *)
(* libraries.                                                              *)

Lower(s) ==
    CASE s = "Album A" -> "album a"
      [] s = "Album B" -> "album b"
      [] s = "Artist X" -> "artist x"
      [] s = "Artist Y" -> "artist y"
      [] s = "None" -> "none"
      [] s = "Track 1" -> "track 1"
      [] s = "Track 2" -> "track 2"
      [] s = "Playlist 1" -> "playlist 1"
      [] s = "Unknown Artist" -> "unknown artist"
      [] s = "Alpha" -> "alpha"
      [] s = "Beta" -> "beta"
      [] s = "Mix" -> "mix"
      [] s = "Title A" -> "title a"
      [] s = "Title B" -> "title b"
      [] s = "Other" -> "other"
      [] s = "TITLE" -> "title"
      [] OTHER -> s

\* the lower-cased strings in ascending order of Python's str comparison
Lexicon ==
    <<"", "0", "5", "[...]", "album a", "album b", "alpha", "artist x",
      "artist y", "bad", "beta", "mix", "none", "other", "playlist 1",
      "title a", "title b", "track 1", "track 2", "unknown artist", "{...}">>
Rank(s) == CHOOSE i \in 1..Len(Lexicon) : Lexicon[i] = s
StrLessEq(a, b) == Rank(a) <= Rank(b)

\* sorted(items, key=...): a stable sort, equal keys keep their order.
\* It is given the items paired with their keys, [sk |-> key, it |-> item].
RECURSIVE InsertSorted(_, _, _)
InsertSorted(q, x, i) ==
    IF i > Len(q) THEN Append(q, x)
    ELSE IF StrLessEq(q[i].sk, x.sk) THEN InsertSorted(q, x, i + 1)
    ELSE SubSeq(q, 1, i - 1) \o <<x>> \o SubSeq(q, i, Len(q))

RECURSIVE SortLoop(_, _, _)
SortLoop(keyed, i, acc) ==
    IF i > Len(keyed) THEN acc
    ELSE SortLoop(keyed, i + 1, InsertSorted(acc, keyed[i], 1))

Sorted(keyed) ==
    LET out == SortLoop(keyed, 1, <<>>)
    IN [i \in 1..Len(out) |-> out[i].it]

----------------------------------------------------------------------------
(* The View Projector: album rows. *)

\* a lookup by subscript, which raises KeyError for an ID that is no key
_get_artist_name_subscript(library_data, artist_id) ==
    IF ~Truthy(artist_id) \/ ~Has(library_data, "artists")
    THEN Ret(S("Unknown Artist"))
    ELSE LET artists == Get(library_data, "artists", None)
         IN IF ~IsDict(artists) \/ ~Has(artists, PyStr(artist_id)) THEN Raised
            ELSE LET artist == Get(artists, PyStr(artist_id), None)
                 IN IF Truthy(artist) /\ IsDict(artist)
                    THEN Ret(Get(artist, "name", S("Unknown Artist")))
                    ELSE IF Truthy(artist) /\ IsList(artist)
                    THEN Ret(IF Truthy(artist.list[1]) THEN artist.list[1]
                             ELSE S("Unknown Artist"))
                    ELSE Ret(S("Unknown Artist"))

\* Ret(name) or Raised (library_data["artists"].get raises unless it is a dict)
_get_artist_name(library_data, artist_id) ==
    IF ~Truthy(artist_id) \/ ~Has(library_data, "artists")
    THEN Ret(S("Unknown Artist"))
    ELSE LET artists == Get(library_data, "artists", None)
         IN IF ~IsDict(artists) THEN Raised
            ELSE LET artist == Get(artists, PyStr(artist_id), None)
                 IN IF Truthy(artist) /\ IsDict(artist)
                    THEN Ret(Get(artist, "name", S("Unknown Artist")))
                    ELSE IF Truthy(artist) /\ IsList(artist)
                    THEN Ret(IF Truthy(artist.list[1]) THEN artist.list[1]
                             ELSE S("Unknown Artist"))
                    ELSE Ret(S("Unknown Artist"))

get_album_title(item) ==
    IF IsDict(item.v) THEN Lower(PyStr(Get(item.v, "title", S(""))))
    ELSE IF IsList(item.v) /\ Len(item.v.list) > 0 THEN Lower(PyStr(item.v.list[1]))
    ELSE ""

\* one pass of the loop over sorted_albums: Ret(<<row>>), Ret(<<>>) for an
\* entry that is skipped, or Raised
AlbumRow(library_data, album) ==
    IF IsDict(album)
    THEN LET artist_name == _get_artist_name(library_data, Get(album, "artist_id", None))
         IN IF ~artist_name.ok THEN Raised
            ELSE Ret(<< <<Get(album, "title", S("Unknown Album")),
                          artist_name.v,
                          S(PyStr(Get(album, "year", S("Unknown")))),
                          S(PyStr(Get(album, "track_count", I(0))))>> >>)
    ELSE IF IsList(album) /\ Len(album.list) >= 7
    THEN LET artist_name == _get_artist_name(library_data, album.list[3])
             track_ids == IF IsList(album.list[2]) THEN album.list[2] ELSE L(<<>>)
         IN IF ~artist_name.ok THEN Raised
            ELSE Ret(<< <<IF Truthy(album.list[1]) THEN album.list[1]
                          ELSE S("Unknown Album"),
                          artist_name.v,
                          IF Truthy(album.list[7]) THEN S(PyStr(album.list[7]))
                          ELSE S("Unknown"),
                          S(ToStr(Len(track_ids.list)))>> >>)
    ELSE Ret(<<>>)

RECURSIVE AlbumRows(_, _, _, _)
AlbumRows(library_data, sorted_albums, i, acc) ==
    IF i > Len(sorted_albums) THEN Ret(acc)
    ELSE LET r == AlbumRow(library_data, sorted_albums[i].v)
         IN IF r.ok THEN AlbumRows(library_data, sorted_albums, i + 1, acc \o r.v)
            ELSE Raised

\* Ret(rows) or Raised (albums.items() raises unless albums is a dict)
_prepare_albums_data_sync(library_data) ==
    IF ~Has(library_data, "albums") THEN Ret(<<>>)
    ELSE LET albums == Get(library_data, "albums", None)
         IN IF ~IsDict(albums) THEN Raised
            ELSE LET keyed == [i \in 1..Len(albums.dict) |->
                                  [sk |-> get_album_title(albums.dict[i]),
                                   it |-> albums.dict[i]]]
                 IN AlbumRows(library_data, Sorted(keyed), 1, <<>>)

----------------------------------------------------------------------------
(* The View Projector: artist, playlist and track rows. *)

\* Ret(name) or Raised (library_data["albums"].get raises unless it is a dict)
_get_album_name(library_data, album_id) ==
    IF ~Truthy(album_id) \/ ~Has(library_data, "albums")
    THEN Ret(S("Unknown Album"))
    ELSE LET albums == Get(library_data, "albums", None)
         IN IF ~IsDict(albums) THEN Raised
            ELSE LET album == Get(albums, PyStr(album_id), None)
                 IN IF Truthy(album) /\ IsDict(album)
                    THEN Ret(Get(album, "title", S("Unknown Album")))
                    ELSE IF Truthy(album) /\ IsList(album)
                    THEN Ret(IF Truthy(album.list[1]) THEN album.list[1]
                             ELSE S("Unknown Album"))
                    ELSE Ret(S("Unknown Album"))

\* the number a str of decimal digits spells
RECURSIVE DigitsValue(_, _, _)
DigitsValue(s, i, acc) ==
    IF i > Len(s) THEN acc
    ELSE DigitsValue(s, i + 1,
             10 * acc + (CHOOSE d \in 0..9 : Digits[d + 1] = SubSeq(s, i, i)))

\* int(x): an int itself, a str of decimal digits as the number it spells;
\* Raised for any other str (ValueError) and for None, a list or a dict
\* (TypeError)
IntOf(x) ==
    IF IsInt(x) THEN Ret(x.int)
    ELSE IF IsStr(x) /\ x.str # ""
            /\ \A i \in 1..Len(x.str) : \E d \in 1..10 : Digits[d] = SubSeq(x.str, i, i)
    THEN Ret(DigitsValue(x.str, 1, 0))
    ELSE Raised

\* f"{minutes}:{seconds}": the seconds as they are, not padded
_format_duration_unpadded(duration_seconds) ==
    IF ~Truthy(duration_seconds) \/ ~IntOf(duration_seconds).ok THEN S("0:00")
    ELSE LET n == IntOf(duration_seconds).v
         IN S(ToStr(n \div 60) \o ":" \o ToStr(n % 60))

\* f"{minutes}:{seconds:02d}" of int(duration_seconds); a falsy duration and
\* one int() raises on are answered with "0:00"
_format_duration(duration_seconds) ==
    IF ~Truthy(duration_seconds) \/ ~IntOf(duration_seconds).ok THEN S("0:00")
    ELSE LET n == IntOf(duration_seconds).v
         IN S(ToStr(n \div 60) \o ":"
              \o (IF n % 60 < 10 THEN "0" ELSE "") \o ToStr(n % 60))

\* iBroadcastTUI._format_duration: the same without the try block, so what
\* int() raises leaves it
app_format_duration(duration_seconds) ==
    IF Truthy(duration_seconds) /\ ~IntOf(duration_seconds).ok THEN Raised
    ELSE Ret(_format_duration(duration_seconds))

\* Ret(id) or Raised: track[6] of a list of exactly six positions is an
\* IndexError
_get_track_artist_id(track) ==
    IF IsDict(track) THEN Ret(Get(track, "artist_id", S("")))
    ELSE IF IsList(track) /\ Len(track.list) > 5
    THEN IF Len(track.list) > 6 THEN Ret(S(PyStr(track.list[7]))) ELSE Raised
    ELSE Ret(S(""))

\* Ret(n) or Raised (tracks.values() raises unless tracks is a dict)
_count_artist_tracks(library_data, artist_id) ==
    IF ~Has(library_data, "tracks") THEN Ret(0)
    ELSE LET tracks == Get(library_data, "tracks", None)
         IN IF ~IsDict(tracks) THEN Raised
            ELSE LET counted == {i \in 1..Len(tracks.dict) :
                                    IsDict(tracks.dict[i].v) \/ IsList(tracks.dict[i].v)}
                 IN IF \E i \in counted : ~_get_track_artist_id(tracks.dict[i].v).ok
                    THEN Raised
                    ELSE Ret(Cardinality({i \in counted :
                             PyStr(_get_track_artist_id(tracks.dict[i].v).v) = artist_id}))

get_artist_name(item) ==
    IF IsDict(item.v) THEN Lower(PyStr(Get(item.v, "name", S(""))))
    ELSE IF IsList(item.v) /\ Len(item.v.list) > 0 THEN Lower(PyStr(item.v.list[1]))
    ELSE ""

get_playlist_name(item) == get_artist_name(item)

get_track_title(item) ==
    IF IsDict(item.v) THEN Lower(PyStr(Get(item.v, "title", S(""))))
    ELSE IF IsList(item.v) /\ Len(item.v.list) > 2 THEN Lower(PyStr(item.v.list[3]))
    ELSE ""

\* one pass of each loop: Ret(<<row>>), Ret(<<>>) for a skipped entry, Raised
ArtistRow(library_data, item) ==
    IF IsDict(item.v)
    THEN Ret(<< <<Get(item.v, "name", S("Unknown Artist")),
                  S(PyStr(Get(item.v, "track_count", I(0))))>> >>)
    ELSE IF IsList(item.v) /\ Len(item.v.list) >= 2
    THEN LET tracks_count == _count_artist_tracks(library_data, item.k)
         IN IF ~tracks_count.ok THEN Raised
            ELSE Ret(<< <<IF Truthy(item.v.list[1]) THEN item.v.list[1]
                          ELSE S("Unknown Artist"),
                          S(ToStr(tracks_count.v))>> >>)
    ELSE Ret(<<>>)

PlaylistRow(library_data, item) ==
    IF IsDict(item.v)
    THEN Ret(<< <<Get(item.v, "name", S("Unknown Playlist")),
                  S(PyStr(Get(item.v, "track_count", I(0)))),
                  Get(item.v, "description", S(""))>> >>)
    ELSE IF IsList(item.v) /\ Len(item.v.list) >= 2
    THEN LET track_ids == IF IsList(item.v.list[2]) THEN item.v.list[2] ELSE L(<<>>)
         IN Ret(<< <<IF Truthy(item.v.list[1]) THEN item.v.list[1]
                     ELSE S("Unknown Playlist"),
                     S(ToStr(Len(track_ids.list))),
                     S("")>> >>)
    ELSE Ret(<<>>)

TrackRow(library_data, item) ==
    LET dictForm == IsDict(item.v)
        listForm == IsList(item.v) /\ Len(item.v.list) >= 7
        artist_name == _get_artist_name(library_data,
                          IF dictForm THEN Get(item.v, "artist_id", None)
                          ELSE item.v.list[7])
        album_name == _get_album_name(library_data,
                          IF dictForm THEN Get(item.v, "album_id", None)
                          ELSE item.v.list[6])
    IN IF ~dictForm /\ ~listForm THEN Ret(<<>>)
       ELSE IF ~artist_name.ok \/ ~album_name.ok THEN Raised
       ELSE IF dictForm
       THEN Ret(<< <<Get(item.v, "title", S("Unknown Track")), artist_name.v,
                     album_name.v,
                     _format_duration(Get(item.v, "duration", I(0)))>> >>)
       ELSE Ret(<< <<IF Truthy(item.v.list[3]) THEN item.v.list[3]
                     ELSE S("Unknown Track"),
                     artist_name.v, album_name.v,
                     _format_duration(item.v.list[5])>> >>)

\* the row of an item of collection c
ItemRow(c, library_data, item) ==
    CASE c = "albums" -> AlbumRow(library_data, item.v)
      [] c = "artists" -> ArtistRow(library_data, item)
      [] c = "playlists" -> PlaylistRow(library_data, item)
      [] c = "tracks" -> TrackRow(library_data, item)

SortKey(c, item) ==
    CASE c = "albums" -> get_album_title(item)
      [] c = "artists" -> get_artist_name(item)
      [] c = "playlists" -> get_playlist_name(item)
      [] c = "tracks" -> get_track_title(item)

RECURSIVE RowsLoop(_, _, _, _, _)
RowsLoop(c, library_data, sorted_items, i, acc) ==
    IF i > Len(sorted_items) THEN Ret(acc)
    ELSE LET r == ItemRow(c, library_data, sorted_items[i])
         IN IF r.ok THEN RowsLoop(c, library_data, sorted_items, i + 1, acc \o r.v)
            ELSE Raised

\* the items of collection c in the order the projection lists them
SortedItems(c, coll) ==
    Sorted([i \in 1..Len(coll.dict) |-> [sk |-> SortKey(c, coll.dict[i]), it |-> coll.dict[i]]])

\* _prepare_<c>_data_sync(library_data): Ret(rows) or Raised
PrepareRows(c, library_data) ==
    IF ~Has(library_data, c) THEN Ret(<<>>)
    ELSE LET coll == Get(library_data, c, None)
         IN IF ~IsDict(coll) THEN Raised
            ELSE RowsLoop(c, library_data, SortedItems(c, coll), 1, <<>>)

_prepare_artists_data_sync(library_data) == PrepareRows("artists", library_data)
_prepare_playlists_data_sync(library_data) == PrepareRows("playlists", library_data)
_prepare_tracks_data_sync(library_data) == PrepareRows("tracks", library_data)

----------------------------------------------------------------------------
(* The Cache Store: the cache file and the operations on it. *)

Absent == [exists |-> FALSE]
Holding(chunks) == [exists |-> TRUE, content |-> chunks]

\* self.cache_file.exists() and self.cache_file.stat().st_size > 0
_has_cached_data(f) == f.exists /\ Len(f.content) > 0

EmptyDict == D(<<>>)

\* readable = FALSE: open() fails with an OSError that is not
\* FileNotFoundError (PermissionError), which the except clause lets through
_load_cached_library(f, readable) ==
    IF ~f.exists THEN Ret(EmptyDict)
    ELSE IF ~readable THEN Raised
    ELSE LET r == JsonLoad(f.content)
         IN IF r.ok THEN Ret(r.v) ELSE Ret(EmptyDict)

\* clear_cache: unlink the file if it exists
clear_cache(f) == IF f.exists THEN Absent ELSE f

\* what _cache_library_data writes for data whose normalization returns:
\* json.dump(processed_data, f)
CacheDocumentRaw(data) == JsonDump(data)
CacheDocument(data) == JsonDump(_preprocess_data(data).v)

\* what the file can hold when a write that has opened (and so truncated) it
\* fails before the last chunk: nothing, the first chunk, half of the
\* document, or all but the last chunk
FlushPoints(doc) == {k \in {0, 1, Len(doc) \div 2, Len(doc) - 1} : k >= 0 /\ k < Len(doc)}

----------------------------------------------------------------------------
(* The search: DataManager._search_tracks_sync over the cache file. *)

\* q in t, for two str
Contains(q, t) == \E i \in 0..(Len(t) - Len(q)) : SubSeq(t, i + 1, i + Len(q)) = q

NotFound == [notfound |-> TRUE]

\* "ref and ref in coll", then coll[ref]: the entry found, NotFound, or the
\* TypeError of an unhashable key, of a container that cannot be searched
\* or of a subscript of the wrong type
Lookup(coll, ref) ==
    IF ~Truthy(ref) THEN Ret(NotFound)
    ELSE CASE IsDict(coll) ->
                 IF IsList(ref) \/ IsDict(ref) THEN Raised
                 ELSE IF IsStr(ref) /\ Has(coll, ref.str) THEN Ret(Get(coll, ref.str, None))
                 ELSE Ret(NotFound)
           [] IsList(coll) ->
                 IF \E i \in 1..Len(coll.list) : PyEq(coll.list[i], ref)
                 THEN IF IsInt(ref) /\ ref.int < Len(coll.list)
                      THEN Ret(coll.list[ref.int + 1]) ELSE Raised
                 ELSE Ret(NotFound)
           [] IsStr(coll) ->
                 IF IsStr(ref) /\ ~Contains(ref.str, coll.str) THEN Ret(NotFound) ELSE Raised
           [] OTHER -> Raised

\* the name of the entry a lookup found: the given field of a dict, the
\* first position of a non-empty list, otherwise the default
FoundName(found, field, default) ==
    IF found = NotFound THEN default
    ELSE IF IsDict(found) THEN Get(found, field, default)
    ELSE IF IsList(found) /\ found.list # <<>> THEN found.list[1]
    ELSE default

\* the fields the loop extracts from one track, or NotFound for an entry it
\* passes over
TrackInfo(track_data) ==
    IF IsList(track_data) /\ Len(track_data.list) >= 3
    THEN [title |-> S(PyStr(track_data.list[3])),
          artist_id |-> IF Len(track_data.list) > 6 THEN S(PyStr(track_data.list[7])) ELSE None,
          album_id |-> IF Len(track_data.list) > 5 THEN S(PyStr(track_data.list[6])) ELSE None]
    ELSE IF IsDict(track_data)
    THEN [title |-> Get(track_data, "title", S("")),
          artist_id |-> Get(track_data, "artist_id", None),
          album_id |-> Get(track_data, "album_id", None)]
    ELSE NotFound

\* the loop over tracks.items() from item i on, results being what it has
\* collected: Ret(results) at the break or at the end, Raised when a step
\* raises (title.lower() of a title that is no str, a lookup's TypeError)
RECURSIVE SearchLoop(_, _, _, _, _, _, _)
SearchLoop(tracks, artists, albums, query_lower, limit, i, results) ==
    IF i > Len(tracks.dict) \/ Len(results) >= limit THEN Ret(results)
    ELSE LET track_id == tracks.dict[i].k
             info == TrackInfo(tracks.dict[i].v)
         IN IF info = NotFound
            THEN SearchLoop(tracks, artists, albums, query_lower, limit, i + 1, results)
            ELSE IF ~IsStr(info.title) THEN Raised
            ELSE IF ~Contains(query_lower, Lower(info.title.str))
            THEN SearchLoop(tracks, artists, albums, query_lower, limit, i + 1, results)
            ELSE LET artist == Lookup(artists, info.artist_id)
                     album == Lookup(albums, info.album_id)
                 IN IF ~artist.ok \/ ~album.ok THEN Raised
                    ELSE SearchLoop(tracks, artists, albums, query_lower, limit, i + 1,
                             Append(results,
                                 [id |-> track_id,
                                  title |-> info.title,
                                  artist |-> FoundName(artist.v, "name", S("Unknown Artist")),
                                  album |-> FoundName(album.v, "title", S("Unknown Album")),
                                  year |-> None]))

\* the body of the try block, given what _load_cached_library returned
SearchIn(data, query, limit) ==
    IF ~IsDict(data) THEN Raised
    ELSE LET tracks == Get(data, "tracks", EmptyDict)
             artists == Get(data, "artists", EmptyDict)
             albums == Get(data, "albums", EmptyDict)
         IN IF ~IsDict(tracks) THEN Raised
            ELSE SearchLoop(tracks, artists, albums, Lower(query), limit, 1, <<>>)

\* _search_tracks_sync: f is the file at the existence check, seen the file
\* at the read; every exception of the try block gives the empty list
_search_tracks_sync(f, seen, readable, query, limit) ==
    IF ~_has_cached_data(f) THEN <<>>
    ELSE LET data == _load_cached_library(seen, readable)
             found == IF data.ok THEN SearchIn(data.v, query, limit) ELSE Raised
         IN IF found.ok THEN found.v ELSE <<>>

----------------------------------------------------------------------------
(* The libraries of the model. *)

Collections == {"albums", "artists", "tracks", "playlists"}

MaxTracks == 2

ArtistEntries ==
    { D(<<KV("name", S("Artist X")), KV("track_count", I(5))>>),
      L(<<S("Artist Y"), L(<<I(101), I(102)>>)>>),
      S("bad") }

TrackEntries ==
    { D(<<KV("title", S("Track 1")), KV("artist_id", S("10")),
          KV("album_id", S("1")), KV("duration", I(180))>>),
      D(<<KV("title", S("Track 1")), KV("artist_id", I(10)),
          KV("album_id", I(1)), KV("duration", I(180))>>),
      L(<<I(0), I(0), S("Track 2"), I(0), I(200), S("2"), S("11")>>),
      L(<<I(0), I(0), S("Track 2"), I(0), I(200), I(2), I(11)>>),
      L(<<I(0), I(0), S("Track 2")>>) }

\* every dict of at most n items whose keys are ToStr(base + 1), ... in order
\* and whose values are drawn from entries
DictsOf(base, entries, n) ==
    UNION { { D([i \in 1..m |-> KV(ToStr(base + i), q[i])]) : q \in [1..m -> entries] } :
            m \in 0..n }

\* a collection the payload does not carry
Missing == [missing |-> TRUE]
\* a collection that is not a mapping
NotAMapping == L(<<>>)

\* artists "10" and "11" in every pairing of the entry forms, no artist at
\* all, no artists collection, and one that is not a mapping
ArtistChoices ==
    { D(<<KV("10", a), KV("11", b)>>) : a, b \in ArtistEntries }
        \cup {EmptyDict, Missing, NotAMapping}
TrackChoices == DictsOf(99, TrackEntries, MaxTracks) \cup {Missing, NotAMapping}

\* the albums of tests/test_data_manager_new.py, whole and one at a time
AlbumA ==
    D(<<KV("title", S("Album A")), KV("artist_id", S("10")),
        KV("year", I(2020)), KV("track_count", I(5))>>)
AlbumB ==
    L(<<S("Album B"), L(<<I(101), I(102)>>), I(11), I(0), I(0), I(0), I(2021)>>)
AlbumChoices ==
    { Missing,
      D(<<KV("1", AlbumA), KV("2", AlbumB)>>),
      D(<<KV("1", AlbumB), KV("2", AlbumA)>>) }

PlaylistChoices ==
    { Missing,
      D(<<KV("20", D(<<KV("name", S("Playlist 1")), KV("track_count", I(10)),
                       KV("description", S("Desc"))>>))>>) }

MkPayload(albums, artists, playlists, tracks) ==
    D(SelectSeq(<<KV("albums", albums), KV("artists", artists),
                  KV("playlists", playlists), KV("tracks", tracks)>>,
                LAMBDA kv : kv.v # Missing))

Payloads ==
    { MkPayload(al, ar, pl, tr) :
        al \in AlbumChoices, ar \in ArtistChoices,
        pl \in PlaylistChoices, tr \in TrackChoices }

----------------------------------------------------------------------------
(* The callers of load_library_async. *)

NumCallers == 2
Callers == 1..NumCallers

NotLoaded == [none |-> TRUE]
NoRows == [none |-> TRUE]
NoData == [none |-> TRUE]

\* no call has been made
PipeIdle ==
    /\ pc = [c \in Callers |-> "idle"]
    /\ api_data = [c \in Callers |-> NoData]
    /\ awaited = [c \in Callers |-> NotLoaded]
    /\ result = [c \in Callers |-> NotLoaded]
    /\ woff = [c \in Callers |-> 0]
    /\ steps = [c \in Callers |-> <<>>]
    /\ observed = [c \in Callers |-> "none"]
    /\ app_library_data = None
    /\ notice = [c \in Callers |-> "none"]

\* token_manager's file and the session iBroadcastClient holds in memory
NoToken == [present |-> FALSE]
Stored(t, e) == [present |-> TRUE, token |-> t, expired |-> e]
\* a token file whose content is JSON but no object, or no UTF-8 text
NotAnObject == [present |-> TRUE, object |-> FALSE]
NoSession == 0

\* the dict get_library returns, without its data
NoResult == [status |-> "none"]
Success == [status |-> "success"]
Error(m) == [status |-> "error", message |-> m]
\* the call did not return: an exception left get_library
Escaped == [status |-> "raised"]

\* a client without a session, no get_library call made
ClientIdle ==
    /\ token_file = NoToken
    /\ token = NoSession
    /\ credentials = FALSE
    /\ gl_pc = "idle"
    /\ depth = 0
    /\ sent = <<>>
    /\ gl_result = NoResult

\* the application as constructed: the albums view, nothing projected
ViewIdle ==
    /\ current_view = "albums"
    /\ projected = NoData

\* no search has been made
NoSearch == [none |-> TRUE]
SearchIdle ==
    /\ searched = NoSearch
    /\ search_results = <<>>

\* the loads a user starts with the connect button
NumLoads == 2
Loads == 1..NumLoads

\* nothing formatted
NotFormatted == [none |-> TRUE]
FormatIdle ==
    /\ duration = None
    /\ formatted = NotFormatted

\* an AudioPlayer as constructed, with no playback thread, and a
\* StreamSource of a generator that yields nothing
NoTrack == [none |-> TRUE]
NoThread == 0
NoRead == [none |-> TRUE]
NoSource == [chunks |-> <<>>, pos |-> 0]
MainIdle == [op |-> "none", at |-> "idle"]
AudioIdle ==
    /\ stop_event = FALSE
    /\ pause_event = TRUE
    /\ player_state = "stopped"
    /\ current_track = NoTrack
    /\ playback_thread = NoThread
    /\ threads = <<>>
    /\ main = MainIdle
    /\ track_ended = {}
    /\ source = NoSource
    /\ buffer = <<>>
    /\ delivered = <<>>
    /\ last_read = NoRead

\* no row selected
NoSelection == [none |-> TRUE]
SelectIdle == selected = NoSelection

\* no save_token has succeeded since the last delete_token
NoSave == [none |-> TRUE]
\* no call of the token manager made
NoCall == [op |-> "none"]
\* no authenticate() call made
NoAuth == [status |-> "none"]
\* self.streaming_server as __init__ sets it
DefaultServer == S("https://streaming.ibroadcast.com")
\* the session of a client as __init__ sets it before _load_stored_session
NoSessionHeld == [user_id |-> None, token |-> None, streaming_server |-> DefaultServer]

\* a process with no settings, no token file and a client without a session
TokenIdle ==
    /\ tm_file = Absent
    /\ username = None
    /\ password = None
    /\ now = 0
    /\ last_saved = NoSave
    /\ tm_call = NoCall
    /\ session = NoSessionHeld
    /\ posted = 0
    /\ auth = NoAuth

\* the application as constructed: the welcome screen, no load begun
UIIdle ==
    /\ ui_pc = [l \in Loads |-> "idle"]
    /\ ui_data = [l \in Loads |-> NotLoaded]
    /\ ran = {}
    /\ show_library = FALSE
    /\ pending = FALSE
    /\ begun = <<>>
    /\ applied = <<>>

----------------------------------------------------------------------------
(* SpecNorm: one DataManager used by one caller at a time on a payload     *)
(* drawn from Payloads: it caches the payload, reads the cache back and    *)
(* projects the album rows of what it read.                                *)

InitNorm ==
    /\ raw \in Payloads
    /\ file = Absent
    /\ saved = "none"
    /\ prev = Absent
    /\ loaded = NotLoaded
    /\ rows = NoRows
    /\ PipeIdle
    /\ ClientIdle
    /\ ViewIdle
    /\ SearchIdle
    /\ UIIdle
    /\ FormatIdle
    /\ TokenIdle
    /\ SelectIdle
    /\ AudioIdle

\* _cache_library_data(data), run to its end by one worker with no other
\* access to the file meanwhile: the file it leaves and whether it failed
\* (every failure is caught and printed)
CacheOutcomes(f, data) ==
    LET processed_data == _preprocess_data(data)
    IN IF ~processed_data.ok
       THEN \* normalization raises: the file is not touched
            {[file |-> f, saved |-> "failed"]}
       ELSE \* open() fails: the file is not touched
            {[file |-> f, saved |-> "failed"]}
            \cup \* the write fails after open() has truncated the file
            {[file |-> Holding(SubSeq(CacheDocument(data), 1, k)), saved |-> "failed"] :
                k \in FlushPoints(CacheDocument(data))}
            \cup \* the write completes
            {[file |-> Holding(CacheDocument(data)), saved |-> "ok"]}

\* _cache_library_data(raw)
NSave ==
    /\ saved = "none"
    /\ \E out \in CacheOutcomes(file, raw) :
           /\ file' = out.file
           /\ saved' = out.saved
    /\ prev' = file
    /\ loaded' = NotLoaded
    /\ rows' = NoRows
    /\ UNCHANGED <<raw, pipeVars, clientVars, viewVars, searchVars, uiVars, fmtVars, tokVars, selVars, audioVars>>

\* _load_cached_library()
NLoad ==
    /\ loaded = NotLoaded
    /\ \E readable \in BOOLEAN : loaded' = _load_cached_library(file, readable)
    /\ UNCHANGED <<file, raw, saved, prev, rows, pipeVars, clientVars, viewVars, searchVars, uiVars, fmtVars, tokVars, selVars, audioVars>>

\* _prepare_albums_data_sync on the snapshot read from the cache
NRows ==
    /\ loaded # NotLoaded
    /\ loaded.ok
    /\ rows = NoRows
    /\ rows' = _prepare_albums_data_sync(loaded.v)
    /\ UNCHANGED <<file, raw, saved, prev, loaded, pipeVars, clientVars, viewVars, searchVars, uiVars, fmtVars, tokVars, selVars, audioVars>>

NextNorm == NSave \/ NLoad \/ NRows

SpecNorm == InitNorm /\ [][NextNorm]_vars

----------------------------------------------------------------------------
(* SpecCache: the Cache Store under any sequence of saves, loads and       *)
(* clears, one at a time.                                                  *)

\* the library of tests/test_data_manager_new.py
Fixture ==
    D(<<KV("albums", D(<<KV("1", AlbumA), KV("2", AlbumB)>>)),
        KV("artists",
           D(<<KV("10", D(<<KV("name", S("Artist X")), KV("track_count", I(5))>>)),
               KV("11", L(<<S("Artist Y"), L(<<I(101), I(102)>>)>>))>>)),
        KV("playlists",
           D(<<KV("20", D(<<KV("name", S("Playlist 1")), KV("track_count", I(10)),
                            KV("description", S("Desc"))>>))>>)),
        KV("tracks",
           D(<<KV("100", D(<<KV("title", S("Track 1")), KV("artist_id", S("10")),
                             KV("album_id", S("1")), KV("duration", I(180))>>)),
               KV("101", L(<<I(0), I(0), S("Track 2"), I(0), I(200),
                             S("2"), S("11")>>))>>))>>)

\* a second library, and one whose normalization raises
OneArtist ==
    D(<<KV("artists", D(<<KV("11", L(<<S("Artist Y"), L(<<>>)>>))>>)),
        KV("tracks", D(<<>>))>>)
Unprocessable ==
    D(<<KV("artists", D(<<>>)), KV("tracks", NotAMapping)>>)

\* a third, without an artists collection, which normalization leaves as it is
NoArtists ==
    D(<<KV("tracks", D(<<KV("100", L(<<I(0), I(0), S("Track 2")>>))>>))>>)

FewPayloads == {Fixture, OneArtist, Unprocessable}

InitCache ==
    /\ file = Absent
    /\ raw = EmptyDict
    /\ saved = "none"
    /\ prev = Absent
    /\ loaded = NotLoaded
    /\ rows = NoRows
    /\ PipeIdle
    /\ ClientIdle
    /\ ViewIdle
    /\ SearchIdle
    /\ UIIdle
    /\ FormatIdle
    /\ TokenIdle
    /\ SelectIdle
    /\ AudioIdle

\* _cache_library_data(data)
CacheSave ==
    /\ \E data \in FewPayloads :
           /\ raw' = data
           /\ \E out \in CacheOutcomes(file, data) :
                  /\ file' = out.file
                  /\ saved' = out.saved
    /\ prev' = file
    /\ loaded' = NotLoaded
    /\ UNCHANGED <<rows, pipeVars, clientVars, viewVars, searchVars, uiVars, fmtVars, tokVars, selVars, audioVars>>

\* _load_cached_library()
CacheLoad ==
    /\ \E readable \in BOOLEAN : loaded' = _load_cached_library(file, readable)
    /\ UNCHANGED <<file, raw, saved, prev, rows, pipeVars, clientVars, viewVars, searchVars, uiVars, fmtVars, tokVars, selVars, audioVars>>

\* clear_cache()
CacheClear ==
    /\ file' = clear_cache(file)
    /\ saved' = "none"
    /\ loaded' = NotLoaded
    /\ UNCHANGED <<raw, prev, rows, pipeVars, clientVars, viewVars, searchVars, uiVars, fmtVars, tokVars, selVars, audioVars>>

NextCache == CacheSave \/ CacheLoad \/ CacheClear

SpecCache == InitCache /\ [][NextCache]_vars

----------------------------------------------------------------------------
(* SpecView: the four row projections on a library drawn from              *)
(* ViewLibraries, given either as fetched or as normalized.                *)

\* artists "10" and "11", inserted in either order: two dicts whose names
\* differ in case only, a list, a list shorter than its layout, a string
ViewArtistEntries ==
    { D(<<KV("name", S("Alpha")), KV("track_count", I(5))>>),
      D(<<KV("name", S("alpha"))>>),
      L(<<S("Beta"), L(<<>>)>>),
      L(<<S("Beta")>>),
      S("bad") }
ViewArtistChoices ==
    { D(<<KV(ids[1], a), KV(ids[2], b)>>) :
        a \in ViewArtistEntries, b \in ViewArtistEntries,
        ids \in {<<"10", "11">>, <<"11", "10">>} }
        \cup {Missing}

\* tracks: whole, without artist_id, with references that resolve to
\* nothing, with a null reference, and lists of 7, 8, 6 and 3 positions
TrackWhole ==
    D(<<KV("title", S("Track 1")), KV("artist_id", S("10")),
        KV("album_id", S("1")), KV("duration", I(180))>>)
TrackNoArtist ==
    D(<<KV("title", S("Track 1")), KV("album_id", S("1")), KV("duration", I(180))>>)
TrackList ==
    L(<<I(0), I(0), S("Track 2"), I(0), I(200), S("2"), S("11")>>)
ViewTrackEntries ==
    { TrackWhole, TrackNoArtist, TrackList,
      D(<<KV("title", S("Track 2")), KV("artist_id", S("77")), KV("album_id", S("77"))>>),
      D(<<KV("title", S("Track 2")), KV("artist_id", None), KV("album_id", None)>>),
      L(<<I(0), I(0), S("Track 2"), I(0), I(200), S("2"), S("11"), S("2023")>>),
      L(<<I(0), I(0), S("Track 2"), I(0), I(200), S("2")>>),
      L(<<I(0), I(0), S("Track 2")>>),
      S("bad") }
ViewTrackChoices ==
    { D(<<KV("100", t)>>) : t \in ViewTrackEntries }
        \cup { D(<<KV("100", TrackWhole), KV("101", TrackList)>>),
               D(<<KV("101", TrackList), KV("100", TrackWhole)>>),
               EmptyDict, Missing }

ViewAlbumChoices ==
    { Missing,
      D(<<KV("1", AlbumA), KV("2", AlbumB)>>),
      D(<<KV("2", L(<<S("Album B"), L(<<I(101)>>), I(11)>>)),
          KV("1", D(<<KV("title", S("Album A")), KV("artist_id", S("77")),
                      KV("year", I(2020))>>))>>),
      D(<<KV("1", D(<<KV("title", S("Album A")), KV("year", I(2020))>>)),
          KV("2", S("bad"))>>),
      \* an album whose year is null and one without a year
      D(<<KV("1", D(<<KV("title", S("Album A")), KV("artist_id", S("10")),
                      KV("year", None)>>)),
          KV("2", D(<<KV("title", S("Album B"))>>))>>) }

ViewPlaylistChoices ==
    { Missing,
      D(<<KV("20", D(<<KV("name", S("Playlist 1")), KV("track_count", I(10)),
                       KV("description", S("Desc"))>>)),
          KV("21", L(<<S("Mix"), L(<<I(101)>>)>>))>>),
      D(<<KV("21", L(<<S("Mix")>>)), KV("20", S("bad"))>>) }

ViewLibraries ==
    { MkPayload(al, ar, pl, tr) :
        al \in ViewAlbumChoices, ar \in ViewArtistChoices,
        pl \in ViewPlaylistChoices, tr \in ViewTrackChoices }

\* the library as a view can be given it: as fetched, or normalized
Sources(payload) ==
    {payload} \cup (IF _preprocess_data(payload).ok
                    THEN {_preprocess_data(payload).v} ELSE {})

\* _prepare_view_data: the rows of the view of collection c
ViewRows(c, library_data) ==
    CASE c = "albums" -> _prepare_albums_data_sync(library_data)
      [] c = "artists" -> _prepare_artists_data_sync(library_data)
      [] c = "playlists" -> _prepare_playlists_data_sync(library_data)
      [] c = "tracks" -> _prepare_tracks_data_sync(library_data)

InitView ==
    /\ raw \in ViewLibraries
    /\ file = Absent
    /\ saved = "none"
    /\ prev = Absent
    /\ loaded = NotLoaded
    /\ rows = NoRows
    /\ PipeIdle
    /\ ClientIdle
    /\ ViewIdle
    /\ SearchIdle
    /\ UIIdle
    /\ FormatIdle
    /\ TokenIdle
    /\ SelectIdle
    /\ AudioIdle

\* the view of collection c is projected from the library
ViewProject(c) ==
    /\ \E library_data \in Sources(raw) :
           /\ projected' = library_data
           /\ rows' = ViewRows(c, library_data)
    /\ current_view' = c
    /\ UNCHANGED <<file, raw, saved, prev, loaded, pipeVars, clientVars, searchVars, uiVars, fmtVars, tokVars, selVars, audioVars>>

NextView == \E c \in Collections : ViewProject(c)

SpecView == InitView /\ [][NextView]_vars

----------------------------------------------------------------------------
(* SpecSearch: search_tracks on a cache file drawn from SearchFiles, for    *)
(* every query of Queries and every limit of Limits.  The file can be      *)
(* removed between the existence check and the read, and the read can be   *)
(* refused.                                                                *)

MaxSearchTracks == 2

\* tracks in both forms, one whose title is null, a list shorter than three
\* positions and one whose artist_id is a list
SearchTrackEntries ==
    { D(<<KV("title", S("Title A")), KV("artist_id", S("10")), KV("album_id", S("1"))>>),
      L(<<I(0), I(0), S("Title B"), I(0), I(200), S("2"), S("11")>>),
      D(<<KV("title", S("Other")), KV("artist_id", I(10)), KV("album_id", S("77"))>>),
      D(<<KV("title", None), KV("artist_id", S("10")), KV("album_id", S("1"))>>),
      L(<<I(0), I(0)>>),
      D(<<KV("title", S("Title B")), KV("artist_id", L(<<I(1)>>))>>) }

SearchCache(tracks) ==
    D(<<KV("albums", D(<<KV("1", AlbumA), KV("2", AlbumB)>>)),
        KV("artists", D(<<KV("10", D(<<KV("name", S("Alpha")), KV("track_count", I(1))>>)),
                          KV("11", L(<<S("Beta"), L(<<>>)>>))>>)),
        KV("tracks", tracks)>>)

\* no file, an empty one, one cut short, documents that are no library, and
\* the caches of every track sequence
SearchFiles ==
    { Absent, Holding(<<>>), Holding(<<P("{")>>),
      Holding(JsonDump(L(<<>>))), Holding(JsonDump(SearchCache(NotAMapping))),
      Holding(JsonDump(D(<<KV("artists", EmptyDict)>>))) }
        \cup { Holding(JsonDump(SearchCache(tr))) :
                 tr \in DictsOf(99, SearchTrackEntries, MaxSearchTracks) }

Queries == {"", "TITLE", "b"}
\* a negative limit, none, one, and more than any cache has tracks
Limits == {0 - 1, 0, 1, MaxSearchTracks + 1}

InitSearch ==
    /\ file \in SearchFiles
    /\ raw = EmptyDict
    /\ saved = "none"
    /\ prev = Absent
    /\ loaded = NotLoaded
    /\ rows = NoRows
    /\ PipeIdle
    /\ ClientIdle
    /\ ViewIdle
    /\ SearchIdle
    /\ UIIdle
    /\ FormatIdle
    /\ TokenIdle
    /\ SelectIdle
    /\ AudioIdle

\* when a concurrent clear_cache() removes the file, if it does: before the
\* stat() of _has_cached_data, whose exists() has seen it, or before the read
Removals == {"never", "at_stat", "at_read"}

\* search_tracks: _search_tracks_sync on the executor; what it raises is
\* raised by the await.  stat() on a file that exists() has seen and that is
\* gone raises FileNotFoundError, outside the try block.
search_tracks(f, gone, readable, query, limit) ==
    IF f.exists /\ gone = "at_stat" THEN Raised
    ELSE Ret(_search_tracks_sync(f, IF gone = "at_read" THEN Absent ELSE f,
                                 readable, query, limit))

\* search_tracks(query, limit), with the file removed or not while it runs
Search(query, limit) ==
    /\ \E gone \in Removals, readable \in BOOLEAN :
           LET out == search_tracks(file, gone, readable, query, limit)
           IN /\ searched' = [query |-> query, limit |-> limit, raised |-> ~out.ok,
                              data |-> IF out.ok /\ _has_cached_data(file)
                                       THEN _load_cached_library(
                                                IF gone = "at_read" THEN Absent ELSE file,
                                                readable)
                                       ELSE NoData]
              /\ search_results' = IF out.ok THEN out.v ELSE <<>>
    /\ UNCHANGED <<file, normVars, pipeVars, clientVars, viewVars, uiVars, fmtVars, tokVars, selVars, audioVars>>

NextSearch == \E query \in Queries, limit \in Limits : Search(query, limit)

SpecSearch == InitSearch /\ [][NextSearch]_vars

----------------------------------------------------------------------------
(* SpecDuration: _format_duration of the data manager and of the           *)
(* application on the duration of a track, drawn from Durations.           *)

MaxDuration == 200

\* every whole number of seconds up to MaxDuration, a null duration, none,
\* and values that are no number of seconds
Durations ==
    {I(d) : d \in 0..MaxDuration}
        \cup {None, Missing, S("200"), S("x"), S(""), L(<<>>), L(<<I(1)>>)}

InitDuration ==
    /\ duration \in Durations
    /\ formatted = NotFormatted
    /\ file = Absent
    /\ raw = EmptyDict
    /\ saved = "none"
    /\ prev = Absent
    /\ loaded = NotLoaded
    /\ rows = NoRows
    /\ PipeIdle
    /\ ClientIdle
    /\ ViewIdle
    /\ SearchIdle
    /\ UIIdle
    /\ TokenIdle
    /\ SelectIdle
    /\ AudioIdle

\* the duration of a track row: track.get("duration", 0), formatted
FormatDuration ==
    /\ formatted = NotFormatted
    /\ LET held == IF duration = Missing THEN I(0) ELSE duration
       IN formatted' = [dm |-> _format_duration(held), app |-> app_format_duration(held)]
    /\ UNCHANGED <<duration, file, normVars, pipeVars, clientVars, viewVars, searchVars, uiVars, tokVars, selVars, audioVars>>

NextDuration == FormatDuration

SpecDuration == InitDuration /\ [][NextDuration]_vars

----------------------------------------------------------------------------
(* The token manager (config/token_manager.py) on its file token.json,     *)
(* under the settings.username u of the process, at the time t.            *)

\* the buffer is_token_valid keeps before the expiry
ExpiryBuffer == 300

\* expires_at set to expires_in, the time of the save not added
StampedWithoutTime(token_data, t, u) ==
    Put(IF Has(token_data, "expires_in") /\ ~Has(token_data, "expires_at")
        THEN Put(token_data, "expires_at", Get(token_data, "expires_in", None))
        ELSE token_data,
        "username", u)

\* token_data as save_token leaves it: it assigns expires_at, when the dict
\* has expires_in and no expires_at, and username into its argument
Stamped(token_data, t, u) ==
    Put(IF Has(token_data, "expires_in") /\ ~Has(token_data, "expires_at")
        THEN Put(token_data, "expires_at",
                 I(t + Get(token_data, "expires_in", None).int))
        ELSE token_data,
        "username", u)

\* save_token: the dict is dumped to a temporary file that then replaces
\* token.json; an OSError on the way leaves token.json as it was and leaves
\* save_token as a RuntimeError
save_token(token_data, t, u, f, fails) ==
    IF fails THEN [ok |-> FALSE, file |-> f]
    ELSE [ok |-> TRUE, file |-> Holding(JsonDump(Stamped(token_data, t, u)))]

\* load_token without the comparison of the username
load_token_of_anyone(f, u) ==
    IF ~f.exists THEN Ret(None)
    ELSE LET doc == JsonLoad(f.content)
         IN IF ~doc.ok THEN Ret(None)
            ELSE IF ~IsDict(doc.v) THEN Raised
            ELSE Ret(doc.v)

\* load_token: None without a file, for a file json.load fails on and for a
\* token whose username is not settings.username; token_data.get raises
\* (AttributeError) on a document that is no object
load_token(f, u) ==
    IF ~f.exists THEN Ret(None)
    ELSE LET doc == JsonLoad(f.content)
         IN IF ~doc.ok THEN Ret(None)
            ELSE IF ~IsDict(doc.v) THEN Raised
            ELSE IF ~PyEq(Get(doc.v, "username", None), u) THEN Ret(None)
            ELSE Ret(doc.v)

\* is_token_valid with the buffer added to the expiry
is_token_valid_late(token_data, f, u, t) ==
    LET held == IF IsNone(token_data) THEN load_token(f, u) ELSE Ret(token_data)
    IN IF ~held.ok THEN Raised
       ELSE IF ~Truthy(held.v) THEN Ret(FALSE)
       ELSE LET expires_at == Get(held.v, "expires_at", None)
            IN IF IsNone(expires_at) THEN Ret(TRUE)
               ELSE IF ~IsInt(expires_at) THEN Raised
               ELSE Ret(t < expires_at.int + ExpiryBuffer)

\* is_token_valid(token_data) at the time t: the token is loaded when none
\* is given; no token is invalid, one without expires_at valid, any other
\* valid while t < expires_at - 300 (the comparison raises TypeError when
\* expires_at is no number)
is_token_valid_at(token_data, f, u, t) ==
    LET held == IF IsNone(token_data) THEN load_token(f, u) ELSE Ret(token_data)
    IN IF ~held.ok THEN Raised
       ELSE IF ~Truthy(held.v) THEN Ret(FALSE)
       ELSE LET expires_at == Get(held.v, "expires_at", None)
            IN IF IsNone(expires_at) THEN Ret(TRUE)
               ELSE IF ~IsInt(expires_at) THEN Raised
               ELSE Ret(t < expires_at.int - ExpiryBuffer)

\* delete_token: the file is unlinked when it exists; an OSError is ignored
\* and leaves the file
unlink_token_file(f, fails) == IF f.exists /\ ~fails THEN Absent ELSE f

\* iBroadcastClient.__init__ with its _load_stored_session: the session of
\* a loadable and valid token, or none; Raised when the token manager raises
StoredSession(f, u, t) ==
    LET token_data == load_token(f, u)
    IN IF ~token_data.ok THEN Raised
       ELSE IF ~Truthy(token_data.v) THEN Ret(NoSessionHeld)
       ELSE LET valid == is_token_valid_at(token_data.v, f, u, t)
            IN IF ~valid.ok THEN Raised
               ELSE IF ~valid.v THEN Ret(NoSessionHeld)
               ELSE Ret([user_id |-> Get(token_data.v, "user_id", None),
                         token |-> Get(token_data.v, "token", None),
                         streaming_server |->
                             Get(token_data.v, "streaming_server", DefaultServer)])

----------------------------------------------------------------------------
(* SpecToken: processes of one user account after the other, each with its *)
(* settings.username and its client, calling the token manager on the      *)
(* token file they share, while the time passes.                           *)

MaxTime == 3

Users == {None, S("user1@example.com"), S("user2@example.com")}

\* 30 days, the expires_in of _save_session
SessionLifetime == 86400 * 30

\* the dicts handed to save_token: with and without expires_in, expires_at
\* and a username of their own, the dict _save_session builds, and {}
TokenDatas ==
    { D(<<KV("access_token", S("test_token"))>>),
      D(<<KV("access_token", S("test_token")), KV("expires_in", I(ExpiryBuffer + 1))>>),
      D(<<KV("access_token", S("test_token")), KV("expires_at", I(ExpiryBuffer + 2)),
          KV("username", S("user1@example.com"))>>),
      D(<<KV("access_token", S("test_token")), KV("expires_in", I(SessionLifetime)),
          KV("expires_at", I(ExpiryBuffer + 1))>>),
      D(<<KV("access_token", S("test_token")), KV("expires_at", None)>>),
      D(<<KV("token", S("tok")), KV("user_id", S("7")),
          KV("streaming_server", S("https://s1.ibroadcast.com")),
          KV("expires_in", I(SessionLifetime))>>),
      D(<<>>) }

InitToken ==
    /\ tm_file = Absent
    /\ username \in Users
    /\ password = None
    /\ now = 0
    /\ last_saved = NoSave
    /\ tm_call = NoCall
    /\ session = NoSessionHeld
    /\ posted = 0
    /\ auth = NoAuth
    /\ file = Absent
    /\ raw = EmptyDict
    /\ saved = "none"
    /\ prev = Absent
    /\ loaded = NotLoaded
    /\ rows = NoRows
    /\ PipeIdle
    /\ ClientIdle
    /\ ViewIdle
    /\ SearchIdle
    /\ UIIdle
    /\ FormatIdle
    /\ SelectIdle
    /\ AudioIdle

TokenRest == <<file, normVars, pipeVars, clientVars, viewVars, searchVars, uiVars, fmtVars, selVars,
               audioVars>>

\* token_manager.save_token(token_data)
SaveToken(token_data, fails) ==
    /\ LET out == save_token(token_data, now, username, tm_file, fails)
       IN /\ tm_file' = out.file
          /\ tm_call' = [op |-> "save", out |-> IF out.ok THEN Ret(None) ELSE Raised]
          /\ last_saved' = IF out.ok
                           THEN [d |-> token_data, at |-> now, user |-> username,
                                 left |-> Stamped(token_data, now, username)]
                           ELSE last_saved
    /\ UNCHANGED <<username, password, now, session, posted, auth>>
    /\ UNCHANGED TokenRest

\* token_manager.load_token()
LoadToken ==
    /\ tm_call' = [op |-> "load", out |-> load_token(tm_file, username)]
    /\ UNCHANGED <<tm_file, username, password, now, last_saved, session, posted, auth>>
    /\ UNCHANGED TokenRest

\* token_manager.is_token_valid()
IsTokenValid ==
    /\ tm_call' = [op |-> "valid", at |-> now,
                   out |-> is_token_valid_at(None, tm_file, username, now)]
    /\ UNCHANGED <<tm_file, username, password, now, last_saved, session, posted, auth>>
    /\ UNCHANGED TokenRest

\* token_manager.delete_token()
DeleteToken(fails) ==
    /\ tm_file' = unlink_token_file(tm_file, fails)
    /\ tm_call' = [op |-> "delete", out |-> Ret(None)]
    /\ last_saved' = IF tm_file'.exists THEN last_saved ELSE NoSave
    /\ UNCHANGED <<username, password, now, session, posted, auth>>
    /\ UNCHANGED TokenRest

\* the time passes
Tick ==
    /\ now < MaxTime
    /\ now' = now + 1
    /\ UNCHANGED <<tm_file, username, password, last_saved, tm_call, session, posted, auth>>
    /\ UNCHANGED TokenRest

\* the process ends and another starts for the user u: settings reads the
\* username from the environment and iBroadcastClient() loads the stored
\* session
Restart(u) ==
    /\ StoredSession(tm_file, u, now).ok
    /\ username' = u
    /\ session' = StoredSession(tm_file, u, now).v
    /\ tm_call' = NoCall
    /\ UNCHANGED <<tm_file, password, now, last_saved, posted, auth>>
    /\ UNCHANGED TokenRest

NextToken ==
    \/ \E token_data \in TokenDatas, fails \in BOOLEAN : SaveToken(token_data, fails)
    \/ LoadToken
    \/ IsTokenValid
    \/ \E fails \in BOOLEAN : DeleteToken(fails)
    \/ Tick
    \/ \E u \in Users : Restart(u)

SpecToken == InitToken /\ [][NextToken]_vars

----------------------------------------------------------------------------
(* iBroadcastClient.authenticate and _login (api/client.py) on the session *)
(* the client holds, the reply to its login request and the token file.    *)

\* the dict authenticate returns
AuthResult(st, msg) == [status |-> st, message |-> msg]

\* what a call leaves behind: its result, the session in memory, the token
\* file, how many requests it posted and whether save_token returned
Left(res, sess, f, n, kept) ==
    [result |-> res, session |-> sess, file |-> f, posted |-> n, persisted |-> kept]

\* whether the client holds a session: self.user_id and self.token
HoldsSession(sess) == Truthy(sess.user_id) /\ Truthy(sess.token)

\* the token_data _save_session builds
SessionData(sess) ==
    D(<<KV("token", sess.token), KV("user_id", sess.user_id),
        KV("streaming_server", sess.streaming_server),
        KV("expires_in", I(SessionLifetime))>>)

\* the session _login takes from a reply with a user: str(user.id), the
\* token, and the streaming server of the settings when the reply has one
SessionOf(sess, status_data) ==
    [user_id |-> S(PyStr(Get(Get(status_data, "user", None), "id", None))),
     token |-> Get(Get(status_data, "user", None), "token", None),
     streaming_server |->
         IF Has(status_data, "settings")
            /\ Has(Get(status_data, "settings", None), "streaming_server")
         THEN Get(Get(status_data, "settings", None), "streaming_server", None)
         ELSE sess.streaming_server]

\* _login: no request without a username and a password; an HTTP error
\* status and an exception of the transport are answered with an error; a
\* reply without "user" too; a reply with a user sets the session and then
\* saves it, and what save_token raises is caught with every other
\* exception and answered with an error, the session staying in memory
_login_at(sess, u, pw, reply, t, f, fails) ==
    IF ~Truthy(u) \/ ~Truthy(pw)
    THEN Left(AuthResult("error", "Missing username or password"), sess, f, 0, FALSE)
    ELSE IF reply.kind = "status"
    THEN Left(AuthResult("error", IF reply.code = 401
                                  THEN "Invalid username or password"
                                  ELSE "Login failed: HTTP " \o ToStr(reply.code)),
              sess, f, 1, FALSE)
    ELSE IF reply.kind = "exception"
    THEN Left(AuthResult("error", "Login failed: exception"), sess, f, 1, FALSE)
    ELSE IF ~Has(reply.body, "user")
    THEN Left(AuthResult("error", "Invalid login credentials"), sess, f, 1, FALSE)
    ELSE LET got == SessionOf(sess, reply.body)
         IN IF ~HoldsSession(got)
            THEN Left(AuthResult("success", "Login successful"), got, f, 1, FALSE)
            ELSE LET out == save_token(SessionData(got), t, u, f, fails)
                 IN IF out.ok
                    THEN Left(AuthResult("success", "Login successful"),
                              got, out.file, 1, TRUE)
                    ELSE Left(AuthResult("error", "Login failed: Failed to save token"),
                              got, out.file, 1, FALSE)

\* authenticate: the session in memory is used as it is, without a request;
\* a client without one logs in
authenticate_at(sess, u, pw, reply, t, f, fails) ==
    IF HoldsSession(sess)
    THEN Left(AuthResult("success", "Using stored session"), sess, f, 0, FALSE)
    ELSE _login_at(sess, u, pw, reply, t, f, fails)

----------------------------------------------------------------------------
(* SpecAuth: the client of a process authenticates, once or again, against *)
(* a server that answers its login request with one of LoginReplies; the   *)
(* token file may be deleted, and a new process may start.                 *)

MaxPosted == 2

Passwords == {None, S("testpass")}

Json(body) == [kind |-> "json", body |-> body]
HttpStatus(code) == [kind |-> "status", code |-> code]
TransportError == [kind |-> "exception"]

\* a reply with a user and the streaming server, one with a user only, one
\* without a user, a 401, a 500 and a request that fails
LoginReplies ==
    { Json(D(<<KV("user", D(<<KV("id", S("12345")), KV("token", S("test_token"))>>)),
               KV("settings", D(<<KV("streaming_server", S("https://streaming.test.com"))>>))>>)),
      Json(D(<<KV("user", D(<<KV("id", I(12345)), KV("token", S("other_token"))>>))>>)),
      Json(D(<<KV("result", I(0)), KV("message", S("Invalid login"))>>)),
      HttpStatus(401),
      HttpStatus(500),
      TransportError }

InitAuth ==
    /\ tm_file = Absent
    /\ username \in Users
    /\ password \in Passwords
    /\ now = 0
    /\ last_saved = NoSave
    /\ tm_call = NoCall
    /\ session = NoSessionHeld
    /\ posted = 0
    /\ auth = NoAuth
    /\ file = Absent
    /\ raw = EmptyDict
    /\ saved = "none"
    /\ prev = Absent
    /\ loaded = NotLoaded
    /\ rows = NoRows
    /\ PipeIdle
    /\ ClientIdle
    /\ ViewIdle
    /\ SearchIdle
    /\ UIIdle
    /\ FormatIdle
    /\ SelectIdle
    /\ AudioIdle

\* client.authenticate(), the server answering a login request with reply
Authenticate(reply, fails) ==
    /\ posted < MaxPosted
    /\ LET out == authenticate_at(session, username, password, reply, now, tm_file, fails)
       IN /\ session' = out.session
          /\ tm_file' = out.file
          /\ posted' = posted + out.posted
          /\ auth' = [status |-> out.result.status, message |-> out.result.message,
                      held |-> session, posted |-> out.posted,
                      reply |-> IF out.posted = 1 THEN reply ELSE TransportError]
          /\ last_saved' = IF out.persisted
                           THEN [d |-> SessionData(out.session), at |-> now,
                                 user |-> username,
                                 left |-> Stamped(SessionData(out.session), now, username)]
                           ELSE last_saved
    /\ UNCHANGED <<username, password, now, tm_call>>
    /\ UNCHANGED TokenRest

\* token_manager.delete_token(), as the 401 handler of get_library calls it
DeleteStored ==
    /\ tm_file.exists
    /\ tm_file' = unlink_token_file(tm_file, FALSE)
    /\ last_saved' = NoSave
    /\ UNCHANGED <<username, password, now, tm_call, session, posted, auth>>
    /\ UNCHANGED TokenRest

\* the process ends and another starts with the settings u and pw: its
\* client loads the stored session
NewProcess(u, pw) ==
    /\ auth # NoAuth
    /\ StoredSession(tm_file, u, now).ok
    /\ username' = u
    /\ password' = pw
    /\ session' = StoredSession(tm_file, u, now).v
    /\ posted' = 0
    /\ auth' = NoAuth
    /\ UNCHANGED <<tm_file, now, last_saved, tm_call>>
    /\ UNCHANGED TokenRest

NextAuth ==
    \/ \E reply \in LoginReplies, fails \in BOOLEAN : Authenticate(reply, fails)
    \/ DeleteStored
    \/ \E u \in Users, pw \in Passwords : NewProcess(u, pw)

SpecAuth == InitAuth /\ [][NextAuth]_vars

----------------------------------------------------------------------------
(* SpecPlayer: one AudioPlayer (player/audio_player.py).  The main thread  *)
(* calls play(), stop() and pause(), one call at a time; every play()      *)
(* starts a playback thread that runs _playback_loop, and the steps of the *)
(* threads interleave with those of the main thread.  All threads share    *)
(* _stop_event, state and current_track, with no lock.                     *)

MaxPlays == 2

\* a playback thread as play() starts it: about to open the stream
NewThread == [at |-> "open", superseded |-> FALSE, natural |-> FALSE]

\* a stop() or a play() begins: the playbacks under way are being ended
Superseding ==
    [k \in 1..Len(threads) |->
        IF threads[k].at # "dead" THEN [threads[k] EXCEPT !.superseded = TRUE]
        ELSE threads[k]]

InitPlayer ==
    /\ stop_event = FALSE
    /\ pause_event = TRUE
    /\ player_state = "stopped"
    /\ current_track = NoTrack
    /\ playback_thread = NoThread
    /\ threads = <<>>
    /\ main = MainIdle
    /\ track_ended = {}
    /\ source = NoSource
    /\ buffer = <<>>
    /\ delivered = <<>>
    /\ last_read = NoRead
    /\ file = Absent
    /\ raw = EmptyDict
    /\ saved = "none"
    /\ prev = Absent
    /\ loaded = NotLoaded
    /\ rows = NoRows
    /\ PipeIdle
    /\ ClientIdle
    /\ ViewIdle
    /\ SearchIdle
    /\ UIIdle
    /\ FormatIdle
    /\ TokenIdle
    /\ SelectIdle

PlayerRest == <<file, normVars, pipeVars, clientVars, viewVars, searchVars, uiVars, fmtVars,
                tokVars, selVars, streamVars>>

\* play(url, track_info) or stop() is called: stop() sets the stop event
\* and goes on to join the playback thread, if one is alive
BeginStop(op) ==
    /\ main.at = "idle"
    /\ op = "play" => Len(threads) < MaxPlays
    /\ stop_event' = TRUE
    /\ threads' = Superseding
    /\ main' = [op |-> op, at |-> "join"]
    /\ UNCHANGED <<pause_event, player_state, current_track, playback_thread, track_ended>>
    /\ UNCHANGED PlayerRest

\* join(timeout=1.0) returns, the thread dead or the second over, and
\* stop() ends: state and current_track are reset
Joined ==
    /\ main.at = "join"
    /\ player_state' = "stopped"
    /\ current_track' = NoTrack
    /\ main' = [main EXCEPT !.at = IF main.op = "play" THEN "start" ELSE "idle"]
    /\ UNCHANGED <<stop_event, pause_event, playback_thread, threads, track_ended>>
    /\ UNCHANGED PlayerRest

\* the rest of play(): the track is set, the events are reset, the state is
\* "playing", a new playback thread is started and play() returns True
StartPlayback ==
    /\ main.at = "start"
    /\ current_track' = [track |-> Len(threads) + 1]
    /\ stop_event' = FALSE
    /\ pause_event' = TRUE
    /\ player_state' = "playing"
    /\ threads' = Append(threads, NewThread)
    /\ playback_thread' = Len(threads) + 1
    /\ main' = [main EXCEPT !.at = "idle"]
    /\ UNCHANGED track_ended
    /\ UNCHANGED PlayerRest

\* pause(): toggles between "playing" and "paused"
Pause ==
    /\ main.at = "idle"
    /\ player_state \in {"playing", "paused"}
    /\ pause_event' = (player_state = "paused")
    /\ player_state' = IF player_state = "playing" THEN "paused" ELSE "playing"
    /\ main' = [op |-> "pause", at |-> "idle"]
    /\ UNCHANGED <<stop_event, current_track, playback_thread, threads, track_ended>>
    /\ UNCHANGED PlayerRest

\* thread k opens the stream, primes the decoder and starts the device: on
\* a status other than 200, a decoder failure or an exception the state
\* becomes "error" and the thread goes to its finally block
ThreadOpen(k, opened) ==
    /\ threads[k].at = "open"
    /\ threads' = [threads EXCEPT ![k].at = IF opened THEN "loop" ELSE "finally"]
    /\ player_state' = IF opened THEN player_state ELSE "error"
    /\ UNCHANGED <<stop_event, pause_event, current_track, playback_thread, main, track_ended>>
    /\ UNCHANGED PlayerRest

\* thread k leaves "while not self._stop_event.is_set() and device.running":
\* it finds the stop event set, or the device has played the stream out
ThreadLeavesLoop(k, played_out) ==
    /\ threads[k].at = "loop"
    /\ stop_event \/ played_out
    /\ threads' = [threads EXCEPT ![k].at = "check", ![k].natural = ~stop_event]
    /\ UNCHANGED <<stop_event, pause_event, player_state, current_track, playback_thread,
                   main, track_ended>>
    /\ UNCHANGED PlayerRest

\* "if not self._stop_event.is_set()": the state becomes "stopped" and
\* on_track_end is called
ThreadCheck(k) ==
    /\ threads[k].at = "check"
    /\ threads' = [threads EXCEPT ![k].at = "finally"]
    /\ IF ~stop_event
       THEN /\ player_state' = "stopped"
            /\ track_ended' = track_ended \cup
                   {[thread |-> k, natural |-> threads[k].natural,
                     superseded |-> threads[k].superseded]}
       ELSE UNCHANGED <<player_state, track_ended>>
    /\ UNCHANGED <<stop_event, pause_event, current_track, playback_thread, main>>
    /\ UNCHANGED PlayerRest

\* the finally block of _playback_loop, and the thread ends
ThreadFinally(k) ==
    /\ threads[k].at = "finally"
    /\ player_state' = "stopped"
    /\ threads' = [threads EXCEPT ![k].at = "dead"]
    /\ UNCHANGED <<stop_event, pause_event, current_track, playback_thread, main, track_ended>>
    /\ UNCHANGED PlayerRest

NextPlayer ==
    \/ \E op \in {"play", "stop"} : BeginStop(op)
    \/ Joined
    \/ StartPlayback
    \/ Pause
    \/ \E k \in 1..Len(threads) : \E opened \in BOOLEAN : ThreadOpen(k, opened)
    \/ \E k \in 1..Len(threads) : \E played_out \in BOOLEAN : ThreadLeavesLoop(k, played_out)
    \/ \E k \in 1..Len(threads) : ThreadCheck(k)
    \/ \E k \in 1..Len(threads) : ThreadFinally(k)

SpecPlayer == InitPlayer /\ [][NextPlayer]_vars

----------------------------------------------------------------------------
(* SpecStream: one StreamSource (player/audio_player.py) over a generator  *)
(* of byte chunks.  The generator is the sequence of the chunks it yields  *)
(* and the number of chunks taken from it so far; bytes are sequences of   *)
(* small numbers.                                                          *)

MaxChunks == 2
MaxChunkLen == 2
MaxSize == 3
ByteValues == {1, 2}

SeqsUpTo(elements, n) == UNION {[1..m -> elements] : m \in 0..n}

Chunks == SeqsUpTo(ByteValues, MaxChunkLen)
ChunkSequences == SeqsUpTo(Chunks, MaxChunks)

RECURSIVE Concat(_)
Concat(chunks) ==
    IF chunks = <<>> THEN <<>> ELSE Head(chunks) \o Concat(Tail(chunks))

IsPrefix(a, b) == Len(a) <= Len(b) /\ a = SubSeq(b, 1, Len(a))

\* "while len(self.buffer) < size": chunks are taken from the generator and
\* appended until the buffer holds size bytes or next() raises StopIteration
RECURSIVE Fill(_, _, _, _)
Fill(buf, chunks, pos, size) ==
    IF Len(buf) < size /\ pos < Len(chunks)
    THEN Fill(buf \o chunks[pos + 1], chunks, pos + 1, size)
    ELSE [buffer |-> buf, pos |-> pos]

\* buffer[:size] and buffer[size:] for size >= 0
Slice(buf, size) ==
    [data |-> SubSeq(buf, 1, IF size < Len(buf) THEN size ELSE Len(buf)),
     rest |-> SubSeq(buf, size + 1, Len(buf))]

\* a read that hands the bytes out but leaves them in the buffer
read_keeping(buf, chunks, pos, size) ==
    LET filled == Fill(buf, chunks, pos, size)
    IN  [data |-> Slice(filled.buffer, size).data,
         buffer |-> filled.buffer,
         pos |-> filled.pos]

\* StreamSource.read(size)
read(buf, chunks, pos, size) ==
    LET filled == Fill(buf, chunks, pos, size)
        cut == Slice(filled.buffer, size)
    IN  [data |-> cut.data, buffer |-> cut.rest, pos |-> filled.pos]

InitStream ==
    /\ source \in {[chunks |-> cs, pos |-> 0] : cs \in ChunkSequences}
    /\ buffer = <<>>
    /\ delivered = <<>>
    /\ last_read = NoRead
    /\ stop_event = FALSE
    /\ pause_event = TRUE
    /\ player_state = "stopped"
    /\ current_track = NoTrack
    /\ playback_thread = NoThread
    /\ threads = <<>>
    /\ main = MainIdle
    /\ track_ended = {}
    /\ file = Absent
    /\ raw = EmptyDict
    /\ saved = "none"
    /\ prev = Absent
    /\ loaded = NotLoaded
    /\ rows = NoRows
    /\ PipeIdle
    /\ ClientIdle
    /\ ViewIdle
    /\ SearchIdle
    /\ UIIdle
    /\ FormatIdle
    /\ TokenIdle
    /\ SelectIdle

\* the decoder calls read(size)
Read(size) ==
    LET out == read(buffer, source.chunks, source.pos, size)
    IN  /\ source' = [source EXCEPT !.pos = out.pos]
        /\ buffer' = out.buffer
        /\ delivered' = delivered \o out.data
        /\ last_read' = [size |-> size, data |-> out.data]
        /\ UNCHANGED <<file, normVars, pipeVars, clientVars, viewVars, searchVars, uiVars,
                       fmtVars, tokVars, selVars, playVars>>

NextStream == \E size \in 0..MaxSize : Read(size)

SpecStream == InitStream /\ [][NextStream]_vars

----------------------------------------------------------------------------
(* Spec: load_library_async called by several callers at once.  The        *)
(* coroutine runs on the event loop; _load_cached_library,                 *)
(* _load_from_api_sync and _cache_library_data run on the executor's       *)
(* worker threads, so their steps interleave with those of other calls.    *)

\* what get_library can return to _load_from_api_sync
PipePayloads == {OneArtist, NoArtists, Unprocessable}
FetchOutcomes ==
    {[status |-> "success", data |-> payload] : payload \in PipePayloads}
        \cup {[status |-> "error", data |-> NoData]}

\* _load_from_api_sync, given what get_library returned
_load_from_api_sync(fetched) ==
    IF fetched.status = "success" THEN Ret(fetched.data) ELSE Raised

\* what a look at the cache file finds: no file, one complete document, or
\* anything else (an empty or partly written file)
Look(f) ==
    IF ~f.exists THEN "absent"
    ELSE IF JsonLoad(f.content).ok THEN "complete"
    ELSE "torn"

\* the bytes a file has where nothing was written
Hole == [p |-> "NUL"]

\* write(chunks) through a file object whose offset is off
WriteAt(content, off, chunks) ==
    LET end == off + Len(chunks)
        size == IF Len(content) > end THEN Len(content) ELSE end
    IN [i \in 1..size |->
           IF i > off /\ i <= end THEN chunks[i - off]
           ELSE IF i <= Len(content) THEN content[i]
           ELSE Hole]

\* how far the next flush of a writer at offset off brings the document to
\* disk: the buffer is flushed once midway and again at the end, or only at
\* the end
NextFlush(doc, off) ==
    IF off = 0 THEN {Len(doc) \div 2, Len(doc)} \ {0} ELSE {Len(doc)}

\* awaiting _cache_library_data: every exception is caught inside it
CacheAwaitedRaising(failed) == IF failed THEN Raised ELSE Ret(None)
CacheAwaited(failed) == Ret(None)

Init ==
    /\ file = Absent
    /\ raw = EmptyDict
    /\ saved = "none"
    /\ prev = Absent
    /\ loaded = NotLoaded
    /\ rows = NoRows
    /\ PipeIdle
    /\ ClientIdle
    /\ ViewIdle
    /\ SearchIdle
    /\ UIIdle
    /\ FormatIdle
    /\ TokenIdle
    /\ SelectIdle
    /\ AudioIdle

\* load_library_async up to its first await: _has_cached_data() on the
\* event loop, then one of the two executor jobs is submitted.  The caller
\* is iBroadcastTUI._load_library_async, which has notified "Loading".
Call(c) ==
    /\ pc[c] = "idle"
    /\ pc' = [pc EXCEPT ![c] = IF _has_cached_data(file) THEN "load_cache" ELSE "fetch"]
    /\ steps' = [steps EXCEPT ![c] =
                    <<IF _has_cached_data(file) THEN "cache_hit" ELSE "cache_miss">>]
    /\ observed' = [observed EXCEPT ![c] = "none"]
    /\ api_data' = [api_data EXCEPT ![c] = NoData]
    /\ awaited' = [awaited EXCEPT ![c] = NotLoaded]
    /\ result' = [result EXCEPT ![c] = NotLoaded]
    /\ woff' = [woff EXCEPT ![c] = 0]
    /\ notice' = [notice EXCEPT ![c] = "loading"]
    /\ UNCHANGED <<file, app_library_data, normVars, clientVars, viewVars, searchVars, uiVars, fmtVars, tokVars, selVars, audioVars>>

\* the worker runs _load_cached_library
LoadCached(c) ==
    /\ pc[c] = "load_cache"
    /\ \E readable \in BOOLEAN :
           /\ awaited' = [awaited EXCEPT ![c] = _load_cached_library(file, readable)]
           /\ steps' = [steps EXCEPT ![c] =
                           Append(@, IF file.exists /\ ~readable THEN "read_error"
                                     ELSE "read")]
    /\ observed' = [observed EXCEPT ![c] = Look(file)]
    /\ pc' = [pc EXCEPT ![c] = "resume"]
    /\ UNCHANGED <<file, api_data, result, woff, app_library_data, notice, normVars, clientVars, viewVars, searchVars, uiVars, fmtVars, tokVars, selVars, audioVars>>

\* the worker runs _load_from_api_sync; on success the coroutine goes on to
\* submit _cache_library_data
Fetch(c) ==
    /\ pc[c] = "fetch"
    /\ \E fetched \in FetchOutcomes :
           LET got == _load_from_api_sync(fetched)
           IN /\ api_data' = [api_data EXCEPT ![c] = fetched.data]
              /\ awaited' = [awaited EXCEPT ![c] = got]
              /\ steps' = [steps EXCEPT ![c] =
                              Append(@, IF got.ok THEN "fetch_ok" ELSE "fetch_error")]
              /\ pc' = [pc EXCEPT ![c] = IF got.ok THEN "cache" ELSE "resume"]
    /\ UNCHANGED <<file, result, woff, observed, app_library_data, notice, normVars, clientVars, viewVars, searchVars, uiVars, fmtVars, tokVars, selVars, audioVars>>

\* the worker runs _cache_library_data up to the open(): mkdir, normalize,
\* then open the cache file for writing, which creates or truncates it
CacheBegin(c) ==
    /\ pc[c] = "cache"
    /\ LET processed_data == _preprocess_data(api_data[c])
       IN \/ \* normalization raises: caught
             /\ ~processed_data.ok
             /\ steps' = [steps EXCEPT ![c] = Append(@, "normalize_error")]
             /\ awaited' = [awaited EXCEPT ![c] = CacheAwaited(TRUE)]
             /\ pc' = [pc EXCEPT ![c] = "resume"]
             /\ file' = file
          \/ \* open() raises: caught
             /\ processed_data.ok
             /\ steps' = [steps EXCEPT ![c] = @ \o <<"normalize", "open_error">>]
             /\ awaited' = [awaited EXCEPT ![c] = CacheAwaited(TRUE)]
             /\ pc' = [pc EXCEPT ![c] = "resume"]
             /\ file' = file
          \/ \* the file is open and empty
             /\ processed_data.ok
             /\ steps' = [steps EXCEPT ![c] = @ \o <<"normalize", "open">>]
             /\ awaited' = awaited
             /\ pc' = [pc EXCEPT ![c] = "writing"]
             /\ file' = Holding(<<>>)
    /\ woff' = [woff EXCEPT ![c] = 0]
    /\ UNCHANGED <<api_data, result, observed, app_library_data, notice, normVars, clientVars, viewVars, searchVars, uiVars, fmtVars, tokVars, selVars, audioVars>>

\* json.dump goes on: the next chunks of the document reach the file at this
\* writer's offset; with the last one the file is closed
CacheWrite(c) ==
    /\ pc[c] = "writing"
    /\ file.exists
    /\ LET doc == CacheDocument(api_data[c])
       IN \E k \in NextFlush(doc, woff[c]) :
              /\ file' = Holding(WriteAt(file.content, woff[c],
                                         SubSeq(doc, woff[c] + 1, k)))
              /\ woff' = [woff EXCEPT ![c] = k]
              /\ IF k = Len(doc)
                 THEN /\ steps' = [steps EXCEPT ![c] = Append(@, "written")]
                      /\ awaited' = [awaited EXCEPT ![c] = CacheAwaited(FALSE)]
                      /\ pc' = [pc EXCEPT ![c] = "resume"]
                 ELSE UNCHANGED <<steps, awaited, pc>>
    /\ UNCHANGED <<api_data, result, observed, app_library_data, notice, normVars, clientVars, viewVars, searchVars, uiVars, fmtVars, tokVars, selVars, audioVars>>

\* json.dump or a write raises: the file is closed as it is, the exception
\* is caught
CacheWriteFails(c) ==
    /\ pc[c] = "writing"
    /\ steps' = [steps EXCEPT ![c] = Append(@, "write_error")]
    /\ awaited' = [awaited EXCEPT ![c] = CacheAwaited(TRUE)]
    /\ pc' = [pc EXCEPT ![c] = "resume"]
    /\ UNCHANGED <<file, api_data, result, woff, observed, app_library_data, notice,
                   normVars, clientVars, viewVars, searchVars, uiVars, fmtVars, tokVars, selVars, audioVars>>

\* the coroutine resumes after its last await and returns or raises to
\* iBroadcastTUI._load_library_async, which stores the data and notifies
Resume(c) ==
    /\ pc[c] = "resume"
    /\ LET out == IF ~awaited[c].ok THEN Raised
                  ELSE IF steps[c][1] = "cache_hit" THEN awaited[c]
                  ELSE Ret(api_data[c])
       IN /\ result' = [result EXCEPT ![c] = out]
          /\ steps' = [steps EXCEPT ![c] = Append(@, IF out.ok THEN "return" ELSE "raise")]
          /\ app_library_data' = IF out.ok THEN out.v ELSE app_library_data
          /\ notice' = [notice EXCEPT ![c] =
                           IF ~out.ok THEN "error"
                           ELSE IF IsDict(out.v) /\ Truthy(out.v) THEN "loaded"
                           ELSE "no_data"]
    /\ pc' = [pc EXCEPT ![c] = "idle"]
    /\ awaited' = [awaited EXCEPT ![c] = NotLoaded]
    /\ woff' = [woff EXCEPT ![c] = 0]
    /\ observed' = [observed EXCEPT ![c] = "none"]
    /\ UNCHANGED <<file, api_data, normVars, clientVars, viewVars, searchVars, uiVars, fmtVars, tokVars, selVars, audioVars>>

Next ==
    \E c \in Callers :
        \/ Call(c)
        \/ LoadCached(c)
        \/ Fetch(c)
        \/ CacheBegin(c)
        \/ CacheWrite(c)
        \/ CacheWriteFails(c)
        \/ Resume(c)

Spec == Init /\ [][Next]_vars

----------------------------------------------------------------------------
(* The library request: iBroadcastClient.get_library over token_manager *)

\* get_library frames the interpreter allows before the recursion limit
\* stops the next request
MaxDepth == 4

\* the session a stored token file was written with before the call
OldToken == 1
\* the token the server issues at a login
NewToken == 2

\* load_token catches OSError and JSONDecodeError only: on such a file its
\* token_data.get (AttributeError) or its read (UnicodeDecodeError) raises
load_token_raises(tf) == tf = NotAnObject

is_token_valid(tf) == tf.present /\ ~tf.expired

delete_token(tf) == NoToken

_load_stored_session(held, tf) == IF is_token_valid(tf) THEN tf.token ELSE held

\* what a call leaves behind: its status, the session in memory, the file
Outcome(st, held, tf) == [status |-> st, token |-> held, token_file |-> tf]

\* _login: no request without credentials; a reply with a user sets the
\* session and then saves it, and save_token may raise before or after it
\* has replaced the file; every other reply and every exception is an error
_login(held, tf, creds) ==
    IF ~creds THEN {Outcome("error", held, tf)}
    ELSE { Outcome("success", NewToken, Stored(NewToken, FALSE)),
           Outcome("error", NewToken, Stored(NewToken, FALSE)),
           Outcome("error", NewToken, tf),
           Outcome("error", held, tf) }

authenticate(held, tf, creds) ==
    IF held # NoSession THEN {Outcome("success", held, tf)}
    ELSE _login(held, tf, creds)

\* the replies to the library request: a document with or without
\* "library", a 401, another HTTP error status, an exception of the transport
LibraryReplies == {"library", "no_library", "401", "http_error", "exception"}

\* the error message of get_library for a reply that ends the call
Message(reply) ==
    IF reply = "no_library" THEN "Invalid library response format"
    ELSE IF reply = "http_error" THEN "Failed to fetch library: 500"
    ELSE "Failed to fetch library: exception"

InitClient ==
    /\ file = Absent /\ raw = EmptyDict /\ saved = "none" /\ prev = Absent
    /\ loaded = NotLoaded /\ rows = NoRows
    /\ PipeIdle
    /\ ViewIdle
    /\ SearchIdle
    /\ UIIdle
    /\ FormatIdle
    /\ TokenIdle
    /\ SelectIdle
    /\ AudioIdle
    /\ token_file \in {NoToken, Stored(OldToken, FALSE), Stored(OldToken, TRUE), NotAnObject}
    /\ token \in {NoSession, OldToken}
    /\ credentials \in BOOLEAN
    /\ gl_pc = "idle"
    /\ depth = 0
    /\ sent = <<>>
    /\ gl_result = NoResult

\* a caller invokes get_library
GetLibrary ==
    /\ gl_pc = "idle"
    /\ gl_pc' = "enter"
    /\ UNCHANGED <<token_file, token, credentials, depth, sent, gl_result>>
    /\ UNCHANGED <<file, normVars, pipeVars, viewVars, searchVars, uiVars, fmtVars, tokVars, selVars, audioVars>>

\* the head of get_library, which no try block covers: authenticate unless
\* the stored token is valid, then take the session from the file if none
\* is held.  What is_token_valid raises leaves get_library.
GLEnter ==
    /\ gl_pc = "enter"
    /\ IF load_token_raises(token_file)
       THEN /\ gl_result' = Escaped
            /\ gl_pc' = "done"
            /\ UNCHANGED <<token_file, token>>
       ELSE \E a \in (IF is_token_valid(token_file)
                      THEN {Outcome("success", token, token_file)}
                      ELSE authenticate(token, token_file, credentials)) :
               /\ token_file' = a.token_file
               /\ IF a.status # "success"
                  THEN /\ token' = a.token
                       /\ gl_result' = Error("Authentication required")
                       /\ gl_pc' = "done"
                  ELSE /\ token' = IF a.token = NoSession
                                   THEN _load_stored_session(a.token, a.token_file)
                                   ELSE a.token
                       /\ gl_pc' = "request"
                       /\ UNCHANGED gl_result
    /\ UNCHANGED <<credentials, depth, sent>>
    /\ UNCHANGED <<file, normVars, pipeVars, viewVars, searchVars, uiVars, fmtVars, tokVars, selVars, audioVars>>


\* the try block of get_library and its handlers.  A reply with "library"
\* returns success; a 401 deletes the token file, authenticates and, on
\* success, returns what a nested get_library returns; every other reply
\* and every exception returns an error.  At the recursion limit the post
\* raises RecursionError inside the try block, which returns an error.
GLRequest ==
    /\ gl_pc = "request"
    /\ IF depth >= MaxDepth
       THEN /\ gl_result' = Error("Failed to fetch library: exception")
            /\ gl_pc' = "done"
            /\ UNCHANGED <<token_file, token, depth, sent>>
       ELSE /\ sent' = Append(sent, token)
            /\ \E reply \in LibraryReplies :
                  CASE reply = "library" ->
                          /\ gl_result' = Success
                          /\ gl_pc' = "done"
                          /\ UNCHANGED <<token_file, token, depth>>
                    [] reply = "401" ->
                          \E a \in authenticate(token, delete_token(token_file), credentials) :
                              /\ token_file' = a.token_file
                              /\ token' = a.token
                              /\ IF a.status = "success"
                                 THEN /\ depth' = depth + 1
                                      /\ gl_pc' = "enter"
                                      /\ UNCHANGED gl_result
                                 ELSE /\ gl_result' = Error("Failed to fetch library: 401")
                                      /\ gl_pc' = "done"
                                      /\ UNCHANGED depth
                    [] OTHER ->
                          /\ gl_result' = Error(Message(reply))
                          /\ gl_pc' = "done"
                          /\ UNCHANGED <<token_file, token, depth>>
    /\ UNCHANGED credentials
    /\ UNCHANGED <<file, normVars, pipeVars, viewVars, searchVars, uiVars, fmtVars, tokVars, selVars, audioVars>>

NextClient == GetLibrary \/ GLEnter \/ GLRequest

SpecClient == InitClient /\ [][NextClient]_vars

----------------------------------------------------------------------------
(* SpecUI: the control flow of iBroadcastTUI.  The handlers run on the UI   *)
(* thread; the jobs load_library_async hands to the executor run on the    *)
(* pool and are taken whole here (Spec takes them step by step).  ran      *)
(* records every blocking or library-sized step with the thread that ran   *)
(* it.                                                                     *)

UILibraries == {OneArtist, NoArtists}
UIFetchOutcomes ==
    {[status |-> "success", data |-> payload] : payload \in UILibraries}
        \cup {[status |-> "error", data |-> NoData]}

\* an assignment that merges: the collections already held, with those of
\* data that they lack
AssignLibraryMerged(library_data, data) ==
    IF IsDict(library_data) /\ IsDict(data)
    THEN D(library_data.dict \o
           SelectSeq(data.dict, LAMBDA kv : ~Has(library_data, kv.k)))
    ELSE data
\* self.library_data = data
AssignLibrary(library_data, data) == data

On(place, names) == {<<n, place>> : n \in names}

InitUI ==
    /\ file \in {Absent} \cup {Holding(CacheDocument(payload)) : payload \in UILibraries}
    /\ raw = EmptyDict
    /\ saved = "none"
    /\ prev = Absent
    /\ loaded = NotLoaded
    /\ rows = NoRows
    /\ PipeIdle
    /\ ClientIdle
    /\ ViewIdle
    /\ SearchIdle
    /\ UIIdle
    /\ FormatIdle
    /\ TokenIdle
    /\ SelectIdle
    /\ AudioIdle

\* the connect button: connect_to_service authenticates by a direct call
\* and, authenticated, awaits _load_library_async, whose load_library_async
\* checks for the cache file by a direct call and submits its first job
Connect(l) ==
    /\ ui_pc[l] = "idle"
    /\ \E authenticated \in BOOLEAN :
          IF authenticated
          THEN /\ ran' = ran \cup On("ui", {"authenticate", "exists_check"})
               /\ ui_pc' = [ui_pc EXCEPT ![l] =
                               IF _has_cached_data(file) THEN "load_cache" ELSE "fetch"]
               /\ begun' = Append(begun, l)
          ELSE /\ ran' = ran \cup On("ui", {"authenticate"})
               /\ ui_pc' = [ui_pc EXCEPT ![l] = "done"]
               /\ begun' = begun
    /\ UNCHANGED <<ui_data, show_library, pending, applied>>
    /\ UNCHANGED <<file, normVars, pipeVars, clientVars, viewVars, searchVars, fmtVars, tokVars, selVars, audioVars>>

\* a worker runs _load_cached_library
PoolLoadCached(l) ==
    /\ ui_pc[l] = "load_cache"
    /\ \E readable \in BOOLEAN :
           ui_data' = [ui_data EXCEPT ![l] = _load_cached_library(file, readable)]
    /\ ran' = ran \cup On("pool", {"cache_read"})
    /\ ui_pc' = [ui_pc EXCEPT ![l] = "resume"]
    /\ UNCHANGED <<show_library, pending, begun, applied>>
    /\ UNCHANGED <<file, normVars, pipeVars, clientVars, viewVars, searchVars, fmtVars, tokVars, selVars, audioVars>>

\* a worker runs _load_from_api_sync
PoolFetch(l) ==
    /\ ui_pc[l] = "fetch"
    /\ \E fetched \in UIFetchOutcomes :
           LET got == _load_from_api_sync(fetched)
           IN /\ ui_data' = [ui_data EXCEPT ![l] = got]
              /\ ui_pc' = [ui_pc EXCEPT ![l] = IF got.ok THEN "cache" ELSE "resume"]
    /\ ran' = ran \cup On("pool", {"fetch"})
    /\ UNCHANGED <<show_library, pending, begun, applied>>
    /\ UNCHANGED <<file, normVars, pipeVars, clientVars, viewVars, searchVars, fmtVars, tokVars, selVars, audioVars>>

\* a worker runs _cache_library_data: it normalizes and writes the cache
\* file, or fails and leaves the file as it was
PoolCache(l) ==
    /\ ui_pc[l] = "cache"
    /\ file' \in {file, Holding(CacheDocument(ui_data[l].v))}
    /\ ran' = ran \cup On("pool", {"normalize", "cache_write"})
    /\ ui_pc' = [ui_pc EXCEPT ![l] = "resume"]
    /\ UNCHANGED <<ui_data, show_library, pending, begun, applied>>
    /\ UNCHANGED <<normVars, pipeVars, clientVars, viewVars, searchVars, fmtVars, tokVars, selVars, audioVars>>

\* _load_library_async resumes on the UI thread with what
\* load_library_async returned: it stores the data and, for a non-empty
\* dict, shows the library and schedules a recompose
Finish(l) ==
    /\ ui_pc[l] = "resume"
    /\ ui_pc' = [ui_pc EXCEPT ![l] = "done"]
    /\ IF ui_data[l].ok
       THEN /\ app_library_data' = AssignLibrary(app_library_data, ui_data[l].v)
            /\ applied' = Append(applied, l)
            /\ IF IsDict(ui_data[l].v) /\ Truthy(ui_data[l].v)
               THEN show_library' = TRUE /\ pending' = TRUE
               ELSE UNCHANGED <<show_library, pending>>
       ELSE UNCHANGED <<app_library_data, applied, show_library, pending>>
    /\ UNCHANGED <<ui_data, ran, begun>>
    /\ UNCHANGED <<pc, api_data, awaited, result, woff, steps, observed, notice>>
    /\ UNCHANGED <<file, normVars, clientVars, viewVars, searchVars, fmtVars, tokVars, selVars, audioVars>>

\* switch_view: a navigation button
SwitchView(view) ==
    /\ current_view' = view
    /\ pending' = TRUE
    /\ UNCHANGED <<ui_pc, ui_data, ran, show_library, begun, applied, projected>>
    /\ UNCHANGED <<file, normVars, pipeVars, clientVars, searchVars, fmtVars, tokVars, selVars, audioVars>>

\* the scheduled recompose: compose builds the table of the current view
\* from library_data, preparing its rows by a direct call, or the welcome
\* screen
Recompose ==
    /\ pending
    /\ pending' = FALSE
    /\ IF show_library /\ Truthy(app_library_data)
       THEN /\ projected' = app_library_data
            /\ rows' = ViewRows(current_view, app_library_data)
            /\ ran' = ran \cup On("ui", {"rows"})
       ELSE /\ projected' = NoData
            /\ rows' = NoRows
            /\ ran' = ran
    /\ UNCHANGED <<ui_pc, ui_data, show_library, begun, applied, current_view>>
    /\ UNCHANGED <<file, raw, saved, prev, loaded, pipeVars, clientVars, searchVars, fmtVars, tokVars, selVars, audioVars>>

\* play_track on a row of the tracks table: get_stream_url by a direct call
PlayTrack ==
    /\ projected # NoData
    /\ current_view = "tracks"
    /\ ran' = ran \cup On("ui", {"stream_url"})
    /\ UNCHANGED <<ui_pc, ui_data, show_library, pending, begun, applied>>
    /\ UNCHANGED <<file, normVars, pipeVars, clientVars, viewVars, searchVars, fmtVars, tokVars, selVars, audioVars>>

\* the field the _handle_*_selection handler of a view sorts by
SelectionField(c) == IF c \in {"albums", "tracks"} THEN "title" ELSE "name"

\* _handle_<c>_selection(row_index) on library_data: nothing without the
\* collection; sorted(items, key=lambda x: str(x[1].get(field, "")).lower())
\* raises AttributeError on an entry that is no dict; Ret(the id at
\* row_index of the sorted items), which play_album, play_track or the
\* notification is given, or Ret(None) beyond the last item
_handle_selection(c, library_data, row_index) ==
    IF ~Truthy(library_data) \/ ~Has(library_data, c) THEN Ret(None)
    ELSE LET coll == Get(library_data, c, None)
         IN IF ~IsDict(coll) THEN Raised
            ELSE IF \E i \in 1..Len(coll.dict) : ~IsDict(coll.dict[i].v) THEN Raised
            ELSE LET sorted_items ==
                         Sorted([i \in 1..Len(coll.dict) |->
                                    [sk |-> Lower(PyStr(Get(coll.dict[i].v,
                                                            SelectionField(c), S("")))),
                                     it |-> coll.dict[i]]])
                 IN IF row_index < Len(sorted_items)
                    THEN Ret(S(sorted_items[row_index + 1].k))
                    ELSE Ret(None)

\* the ids of the entities whose rows the table of view c shows, in the
\* order of the rows
ShownIds(c, library_data) ==
    LET shown == SelectSeq(SortedItems(c, Get(library_data, c, EmptyDict)),
                           LAMBDA item : ItemRow(c, library_data, item).ok
                                         /\ ItemRow(c, library_data, item).v # <<>>)
    IN [i \in 1..Len(shown) |-> S(shown[i].k)]

\* on_data_table_row_selected: the user selects row row_index of the table
\* on the screen
SelectRow(row_index) ==
    /\ ~pending
    /\ projected # NoData
    /\ rows # NoRows
    /\ rows.ok
    /\ row_index < Len(rows.v)
    /\ selected' = [view |-> current_view, row |-> row_index,
                    shown |-> ShownIds(current_view, projected)[row_index + 1],
                    out |-> _handle_selection(current_view, app_library_data, row_index)]
    /\ UNCHANGED <<file, normVars, pipeVars, clientVars, viewVars, searchVars, uiVars, fmtVars, tokVars, audioVars>>

NextUI ==
    \/ \E row_index \in 0..(MaxTracks - 1) : SelectRow(row_index)
    \/ \E l \in Loads :
           \/ Connect(l)
           \/ PoolLoadCached(l)
           \/ PoolFetch(l)
           \/ PoolCache(l)
           \/ Finish(l)
    \/ \E view \in Collections : SwitchView(view)
    \/ Recompose
    \/ PlayTrack

SpecUI == InitUI /\ [][NextUI]_vars

----------------------------------------------------------------------------
(* Properties of Spec *)

Occurs(e, q) == \E i \in 1..Len(q) : q[i] = e
Before(a, b, q) == \A i, j \in 1..Len(q) : (q[i] = a /\ q[j] = b) => i < j

\* C5: in a load_library_async call that fetches, the fetch, the
\* normalization, the cache write and the return happen in this order, and
\* the data handed to the caller is the normalized snapshot.
C5_NormalizedBeforeUse ==
    \A c \in Callers :
        (result[c] # NotLoaded /\ result[c].ok /\ Occurs("fetch_ok", steps[c])
            /\ Occurs("written", steps[c]))
        => /\ Before("fetch_ok", "normalize", steps[c])
           /\ Before("normalize", "written", steps[c])
           /\ Before("written", "return", steps[c])
           /\ PyEq(result[c].v, _preprocess_data(api_data[c]).v)

\* C6: load_library_async raises exactly when it found no non-empty cache
\* and the fetch returned an error status, it returns data in every other
\* case, and the UI answers a raised failure with an error notification.
C6_RaisesOnlyOnTotalFailure ==
    \A c \in Callers :
        result[c] # NotLoaded
        => /\ ~result[c].ok
                <=> (Occurs("cache_miss", steps[c]) /\ Occurs("fetch_error", steps[c]))
           /\ ~result[c].ok => (notice[c] = "error" /\ pc[c] = "idle")

\* C7: when the fetch succeeded, load_library_async returns the fetched
\* library, whether _cache_library_data succeeded or failed.
C7_FetchedDataSurvivesCacheFailure ==
    \A c \in Callers :
        (result[c] # NotLoaded /\ Occurs("fetch_ok", steps[c]))
            => result[c] = Ret(api_data[c])

\* C7's case: a call whose cache write failed after the file was opened has
\* returned what it fetched
C7_Witness ==
    \E c \in Callers :
        /\ Occurs("write_error", steps[c])
        /\ result[c] = Ret(api_data[c])
        /\ app_library_data = api_data[c]

\* C4: get_library follows a 401 with at most one retry: the call ends with
\* a status after at most two library requests, whatever the server replies.
C4_AtMostTwoRequests ==
    /\ Len(sent) <= 2
    /\ gl_pc = "done" => gl_result # NoResult

\* C14: get_library never raises: every failure is returned as a value with
\* status error and a message, and success as a value with status success.
C14_GetLibraryReturnsAStatus ==
    /\ gl_result # Escaped
    /\ gl_pc = "done" =>
           \/ gl_result = Success
           \/ gl_result.status = "error" /\ gl_result.message # ""

\* the calls whose _cache_library_data has opened the cache file, and those
\* among them that wrote their whole document
Openers == {c \in Callers : Occurs("open", steps[c])}
Writers == {c \in Callers : Occurs("written", steps[c])}

\* C11: accesses to the cache file never overlap: while one call's
\* _cache_library_data has the file open, no other call is writing it or
\* has a read of it running on the pool; and once all calls are over and
\* every write that began was completed, the file holds the whole document
\* of one of the writers.
C11_ExclusiveFileAccess ==
    /\ \A c, d \in Callers :
           (c # d /\ pc[c] = "writing") => pc[d] \notin {"writing", "load_cache"}
    /\ ((\A c \in Callers : pc[c] = "idle") /\ Writers # {} /\ Openers = Writers)
           => \E c \in Writers : file = Holding(CacheDocument(api_data[c]))

\* C10: no _load_cached_library finds a partly written cache file: what it
\* reads is no file or one complete document.
C10_NoPartialRead == \A c \in Callers : observed[c] # "torn"

----------------------------------------------------------------------------
(* Properties of SpecView *)

\* the IDs of the model's libraries in ascending order
IdOrder == <<"1", "2", "10", "11", "20", "21", "100", "101">>
IdRank(id) == CHOOSE i \in 1..Len(IdOrder) : IdOrder[i] = id

\* item a is listed before item b: by name or title compared without case,
\* then by ID
ListedBefore(c, a, b) ==
    \/ Rank(SortKey(c, a)) < Rank(SortKey(c, b))
    \/ SortKey(c, a) = SortKey(c, b) /\ IdRank(a.k) < IdRank(b.k)

\* the items of a collection ordered by name, then ID
OrderedByNameThenId(c, coll) ==
    LET n == Len(coll.dict)
        at == CHOOSE f \in [1..n -> 1..n] :
                  /\ \A i, j \in 1..n : i # j => f[i] # f[j]
                  /\ \A i, j \in 1..n :
                         i < j => ListedBefore(c, coll.dict[f[i]], coll.dict[f[j]])
    IN [i \in 1..n |-> coll.dict[at[i]]]

\* the view shows a collection the projected library carries
Shown == projected # NoData /\ Has(projected, current_view)

\* C15: the rows of each view are those of its entries ordered by name or
\* title, compared case-insensitively, with equal names ordered by ID,
\* whatever the insertion order of the collection.
C15_RowsOrderedByNameThenId ==
    Shown =>
        rows = RowsLoop(current_view, projected,
                        OrderedByNameThenId(current_view,
                                            Get(projected, current_view, None)),
                        1, <<>>)

\* the reference an album or track holds to its artist, and a track to its album
ArtistRefOf(item) ==
    IF IsDict(item.v) THEN Get(item.v, "artist_id", None)
    ELSE IF current_view = "albums" THEN item.v.list[3] ELSE item.v.list[7]
AlbumRefOf(item) ==
    IF IsDict(item.v) THEN Get(item.v, "album_id", None) ELSE item.v.list[6]

\* ref is a key of collection c of the projected library
Resolves(c, ref) ==
    /\ ~IsNone(ref)
    /\ Has(projected, c)
    /\ Has(Get(projected, c, None), PyStr(ref))

\* the entries of the shown collection that are a dict or a list, and those
\* among them long enough for the projection to read
Formed(items) == {i \in 1..Len(items) : IsDict(items[i].v) \/ IsList(items[i].v)}
Readable(items) ==
    {i \in Formed(items) :
        IsList(items[i].v) =>
            Len(items[i].v.list) >= (IF current_view \in {"albums", "tracks"} THEN 7 ELSE 2)}

\* C16: in the album and track rows an artist_id or album_id that is
\* missing, null or not a key of the library's artists or albums shows as
\* "Unknown Artist" / "Unknown Album", and the projection does not raise.
C16_UnresolvedShowsUnknown ==
    (Shown /\ current_view \in {"albums", "tracks"})
    => /\ rows.ok
       /\ LET items == SortedItems(current_view, Get(projected, current_view, None))
          IN \A i \in Readable(items) :
                LET row == rows.v[Cardinality({j \in Readable(items) : j <= i})]
                IN /\ ~Resolves("artists", ArtistRefOf(items[i]))
                        => row[2] = S("Unknown Artist")
                   /\ (current_view = "tracks" /\ ~Resolves("albums", AlbumRefOf(items[i])))
                        => row[3] = S("Unknown Album")

\* C16's case: the track rows of a library that has artists and albums, and
\* a track whose references are keys of neither
C16_Witness ==
    /\ Shown
    /\ current_view = "tracks"
    /\ Has(projected, "artists")
    /\ Has(projected, "albums")
    /\ rows.ok
    /\ \E r \in 1..Len(rows.v) :
           rows.v[r] = <<S("Track 2"), S("Unknown Artist"), S("Unknown Album"), S("0:00")>>
    /\ \E i \in 1..Len(Get(projected, "tracks", None).dict) :
           Get(Get(projected, "tracks", None).dict[i].v, "artist_id", None) = S("77")

\* the keys of collection c of a library whose entries are neither a list
\* nor a dict
Malformed(library_data, c) ==
    LET coll == Get(library_data, c, EmptyDict)
    IN {coll.dict[i].k : i \in {j \in 1..Len(coll.dict) :
                                   ~IsDict(coll.dict[j].v) /\ ~IsList(coll.dict[j].v)}}

\* C17: normalization and every projection return for a library with
\* malformed entries or lists of any length, and a malformed entry is
\* neither among the artists normalization puts out nor in the rows.
C17_MalformedEntriesSkipped ==
    Shown
    => /\ _preprocess_data(raw).ok
       /\ rows.ok
       /\ (Has(raw, "artists") /\ Has(raw, "tracks"))
              => Malformed(raw, "artists")
                     \cap Keys(Get(_preprocess_data(raw).v, "artists", EmptyDict)) = {}
       /\ Len(rows.v) <= Cardinality(Formed(Get(projected, current_view, None).dict))

\* C18: every list-form entry, however short, gives a row: the view has as
\* many rows as the collection has entries that are a dict or a list.
C18_ShortListsKeepTheirRow ==
    (Shown /\ rows.ok)
    => Len(rows.v) = Cardinality(Formed(Get(projected, current_view, None).dict))

\* the name an artist entry carries, None when it carries none
NameOf(artist) ==
    IF IsDict(artist) THEN Get(artist, "name", None)
    ELSE IF IsList(artist) /\ Len(artist.list) > 0 THEN artist.list[1]
    ELSE None

\* the artist reference of the album a track belongs to, None without one
AlbumArtistRef(item) ==
    IF ~Resolves("albums", AlbumRefOf(item)) THEN None
    ELSE LET album == Get(Get(projected, "albums", None), PyStr(AlbumRefOf(item)), None)
         IN IF IsDict(album) THEN Get(album, "artist_id", None)
            ELSE IF IsList(album) /\ Len(album.list) > 2 THEN album.list[3]
            ELSE None

\* C19: a track whose own artist_id is missing or resolves to no artist is
\* shown under the artist of its album, when the album has one that resolves.
C19_TrackFallsBackToAlbumArtist ==
    (Shown /\ current_view = "tracks" /\ rows.ok)
    => LET items == SortedItems("tracks", Get(projected, "tracks", None))
       IN \A i \in Readable(items) :
              LET row == rows.v[Cardinality({j \in Readable(items) : j <= i})]
                  ref == AlbumArtistRef(items[i])
              IN (/\ ~Resolves("artists", ArtistRefOf(items[i]))
                  /\ Resolves("artists", ref)
                  /\ ~IsNone(NameOf(Get(Get(projected, "artists", None), PyStr(ref), None))))
                 => row[2] = NameOf(Get(Get(projected, "artists", None), PyStr(ref), None))

\* the number of fields of a row of each view
RowWidth(c) == IF c = "artists" THEN 2 ELSE IF c = "playlists" THEN 3 ELSE 4

\* the album carries no year: no such field, or a null one
HasNoYear(album) ==
    IF IsDict(album) THEN IsNone(Get(album, "year", None)) ELSE IsNone(album.list[7])

\* C24: every projected row has the shape of its view: four fields for an
\* album (title, artist, year, track count), two for an artist, three for a
\* playlist, four for a track (title, artist, album, duration), the year
\* being "Unknown" whenever the album has no year.
C24_RowsHaveTheShapeOfTheirView ==
    (Shown /\ rows.ok)
    => /\ \A r \in 1..Len(rows.v) : Len(rows.v[r]) = RowWidth(current_view)
       /\ current_view = "albums" =>
              LET items == SortedItems(current_view, Get(projected, current_view, None))
              IN \A i \in Readable(items) :
                    HasNoYear(items[i].v) =>
                        rows.v[Cardinality({j \in Readable(items) : j <= i})][3]
                            = S("Unknown")

\* the year a track carries: field "year", or position 7 of a list
TrackYear(track) ==
    IF IsDict(track) THEN Get(track, "year", None)
    ELSE IF Len(track.list) > 7 THEN track.list[8] ELSE None

\* C25: each track row of the data manager has five fields in the order
\* title, artist, album, year, duration: the track's year is at row index 3
\* and the formatted duration at row index 4.
C25_TrackRowsCarryTheYear ==
    (Shown /\ current_view = "tracks" /\ rows.ok)
    => LET items == SortedItems(current_view, Get(projected, current_view, None))
       IN \A i \in Readable(items) :
             LET row == rows.v[Cardinality({j \in Readable(items) : j <= i})]
                 track == items[i].v
             IN /\ Len(row) = 5
                /\ ~IsNone(TrackYear(track)) => row[4] = S(PyStr(TrackYear(track)))
                /\ row[5] = _format_duration(IF IsDict(track)
                                             THEN Get(track, "duration", I(0))
                                             ELSE track.list[5])

----------------------------------------------------------------------------
(* Properties of SpecUI *)

\* C12: every blocking or library-sized step (authentication and fetch,
\* the cache-file existence check, cache read and write, normalization, row
\* preparation, stream-URL resolution) runs on the worker pool, never on the
\* UI control flow.
C12_BlockingStepsRunOnThePool ==
    \A step \in ran : step[2] = "pool"

Position(q, x) == CHOOSE i \in 1..Len(q) : q[i] = x
Listed(q) == {q[i] : i \in 1..Len(q)}

\* C13: under any interleaving of overlapping loads and view switches,
\* library_data is None or the complete result of exactly one load call,
\* and so is what a table was built from: never a mixture of two results.
C13_LibraryIsOneLoadsResult ==
    /\ \/ app_library_data = None
       \/ \E l \in Listed(applied) : app_library_data = ui_data[l].v
    /\ \/ projected = NoData
       \/ \E l \in Listed(applied) : projected = ui_data[l].v

\* C13's case: of two overlapping loads with different results the one that
\* began first was applied last, and library_data is its result
C13_Witness ==
    \E a, b \in Listed(applied) :
        /\ Position(begun, a) < Position(begun, b)
        /\ Position(applied, b) < Position(applied, a)
        /\ ui_data[a].v # ui_data[b].v
        /\ app_library_data = ui_data[a].v

----------------------------------------------------------------------------
(* Properties of SpecSearch *)

\* the snapshot the last search read, when it read one with a tracks mapping
SnapshotRead ==
    /\ searched # NoSearch
    /\ searched.data # NoData
    /\ searched.data.ok
    /\ IsDict(searched.data.v)
    /\ IsDict(Get(searched.data.v, "tracks", EmptyDict))

\* whether a track's title contains the query, case-insensitively
TitleContains(track, query) ==
    LET title == IF IsList(track) /\ Len(track.list) >= 3 THEN S(PyStr(track.list[3]))
                 ELSE IF IsDict(track) THEN Get(track, "title", S(""))
                 ELSE None
    IN IsStr(title) /\ Contains(Lower(query), Lower(title.str))

\* the ids of the matching tracks in the snapshot's iteration order
MatchingIds(tracks, query) ==
    LET hits == SelectSeq(tracks.dict, LAMBDA kv : TitleContains(kv.v, query))
    IN [i \in 1..Len(hits) |-> hits[i].k]

FirstOf(q, n) == IF n <= 0 THEN <<>> ELSE SubSeq(q, 1, IF n < Len(q) THEN n ELSE Len(q))

ResultIds == [i \in 1..Len(search_results) |-> search_results[i].id]

\* C20: for every cached snapshot, query and limit, search returns exactly
\* the first `limit` tracks whose title contains the query
\* case-insensitively, in the snapshot's iteration order: never more than
\* `limit`, and never a later match in place of an earlier one.
C20_FirstMatchesInSnapshotOrder ==
    SnapshotRead =>
        ResultIds = FirstOf(MatchingIds(Get(searched.data.v, "tracks", EmptyDict),
                                        searched.query),
                            searched.limit)

\* C21: search never raises, whatever the state of the cache file (absent,
\* removed while the search runs, unreadable, corrupt) and whatever the
\* shape of the cached entries: on any internal error it returns an empty
\* sequence.
C21_SearchNeverRaises ==
    searched # NoSearch => ~searched.raised

\* the entry of collection c of the snapshot read whose key is str(ref)
KeyedAs(c, ref) ==
    LET coll == Get(searched.data.v, c, EmptyDict)
    IN IF Truthy(ref) /\ ~IsList(ref) /\ ~IsDict(ref) /\ IsDict(coll) /\ Has(coll, PyStr(ref))
       THEN Get(coll, PyStr(ref), None)
       ELSE NotFound

\* C22: every lookup by ID stringifies the reference before comparing it
\* with the collection keys: in the search results a track's artist and
\* album are those whose key is the reference as a string, whether the
\* track holds the reference as a number or as a string.
C22_ReferencesResolveAsStrings ==
    SnapshotRead =>
        \A i \in 1..Len(search_results) :
            LET info == TrackInfo(Get(Get(searched.data.v, "tracks", EmptyDict),
                                      search_results[i].id, None))
            IN /\ search_results[i].artist =
                      FoundName(KeyedAs("artists", info.artist_id), "name", S("Unknown Artist"))
               /\ search_results[i].album =
                      FoundName(KeyedAs("albums", info.album_id), "title", S("Unknown Album"))

----------------------------------------------------------------------------
(* Properties of SpecNorm *)

\* the two snapshots agree on which collections they hold and on every field
\* of each
SameCollections(a, b) ==
    \A c \in Collections :
        /\ Has(a, c) <=> Has(b, c)
        /\ PyEq(Get(a, c, None), Get(b, c, None))

\* C1: once _cache_library_data has written a payload without error, a
\* _load_cached_library that returns gives a snapshot equal, on all four
\* collections, to _preprocess_data of that payload.
C1_RoundTrip ==
    (saved = "ok" /\ loaded # NotLoaded /\ loaded.ok)
        => SameCollections(loaded.v, _preprocess_data(raw).v)

\* C1's case: a payload whose artists normalization rewrote has been cached
\* and read back
C1_Witness ==
    /\ saved = "ok"
    /\ loaded # NotLoaded
    /\ loaded.ok
    /\ Has(raw, "artists")
    /\ ~PyEq(Get(loaded.v, "artists", None), Get(raw, "artists", None))

\* the reference a track holds to its artist (field "artist_id", position 6)
\* or its album (field "album_id", position 5), None when it has none
TrackRef(track, field, pos) ==
    IF IsDict(track) THEN Get(track, field, None)
    ELSE IF IsList(track) /\ Len(track.list) > pos THEN track.list[pos + 1]
    ELSE None

\* the number of tracks of the payload whose reference resolves to id
RefCount(payload, field, pos, id) ==
    LET tracks == Get(payload, "tracks", EmptyDict)
    IN IF ~IsDict(tracks) THEN 0
       ELSE Cardinality({i \in 1..Len(tracks.dict) :
                LET ref == TrackRef(tracks.dict[i].v, field, pos)
                IN Truthy(ref) /\ PyStr(ref) = id})

\* the track_count a normalized entity carries, None when it carries none
TrackCountOf(entity) ==
    IF IsDict(entity) THEN Get(entity, "track_count", None) ELSE None

\* every entity of collection c of the snapshot carries the count of the
\* payload's tracks that refer to it
CountsRecomputed(snapshot, payload, c, field, pos) ==
    LET coll == Get(snapshot, c, EmptyDict)
    IN \A i \in 1..Len(coll.dict) :
           TrackCountOf(coll.dict[i].v)
               = I(RefCount(payload, field, pos, coll.dict[i].k))

\* a playlist's own track-id list (position 1 of a list, field "tracks" of a dict)
PlaylistTrackIds(playlist) ==
    IF IsList(playlist) /\ Len(playlist.list) > 1 /\ IsList(playlist.list[2])
    THEN playlist.list[2].list
    ELSE IF IsDict(playlist) /\ IsList(Get(playlist, "tracks", None))
    THEN Get(playlist, "tracks", None).list
    ELSE <<>>

\* C3: after normalization the track_count of every artist and album is the
\* number of the payload's tracks whose reference resolves to its ID, that of
\* a playlist the length of its own track-id list, and every album row shows
\* the recomputed count of an album.  Stated for the payloads that carry
\* albums, artists and tracks.
C3_TrackCountsRecomputed ==
    (saved = "ok" /\ loaded # NotLoaded /\ loaded.ok /\ rows # NoRows /\ rows.ok
        /\ Has(raw, "albums") /\ Has(raw, "artists") /\ Has(raw, "tracks"))
    => /\ CountsRecomputed(loaded.v, raw, "artists", "artist_id", 6)
       /\ CountsRecomputed(loaded.v, raw, "albums", "album_id", 5)
       /\ LET playlists == Get(raw, "playlists", EmptyDict)
              cached == Get(loaded.v, "playlists", EmptyDict)
          IN \A i \in 1..Len(cached.dict) :
                 TrackCountOf(cached.dict[i].v)
                     = I(Len(PlaylistTrackIds(Get(playlists, cached.dict[i].k, None))))
       /\ LET albums == Get(loaded.v, "albums", EmptyDict)
          IN \A r \in 1..Len(rows.v) :
                 \E i \in 1..Len(albums.dict) :
                     rows.v[r][4] = S(ToStr(RefCount(raw, "album_id", 5, albums.dict[i].k)))

----------------------------------------------------------------------------
(* Properties of SpecCache *)

\* a complete document of non-zero size is on disk
SnapshotOnDisk(f) == f.exists /\ f.content # <<>> /\ JsonLoad(f.content).ok

\* C2: when a save fails, the cache file still holds what it held before:
\* _has_cached_data and _load_cached_library answer as they did before it.
C2_FailedSaveKeepsSnapshot ==
    (saved = "failed" /\ SnapshotOnDisk(prev))
        => /\ _has_cached_data(file) = _has_cached_data(prev)
           /\ _load_cached_library(file, TRUE) = _load_cached_library(prev, TRUE)

\* an empty snapshot: all four collections present and empty
IsEmptySnapshot(x) ==
    /\ IsDict(x)
    /\ \A c \in Collections : Has(x, c) /\ Get(x, c, None) = EmptyDict

\* C8: _load_cached_library never raises, and on a missing or unparseable
\* cache file it returns the empty snapshot of four empty collections.
C8_LoadNeverRaises ==
    loaded # NotLoaded
        => /\ loaded.ok
           /\ (~file.exists \/ ~JsonLoad(file.content).ok) => IsEmptySnapshot(loaded.v)

\* C9: after any sequence of saves, loads and clears _has_cached_data() is
\* true exactly when a non-empty snapshot is on disk; it is false before any
\* save and after clear_cache(), and true after a successful save.
C9_HasCacheIffSnapshot ==
    /\ _has_cached_data(file) <=> SnapshotOnDisk(file)
    /\ saved = "none" => ~_has_cached_data(file)
    /\ saved = "ok" => _has_cached_data(file)

\* C23: normalization is idempotent: normalizing a normalized snapshot
\* returns it unchanged, for the normalized payload itself and for the
\* snapshot read back from the cache it was written to.
C23_NormalizationIdempotent ==
    /\ _preprocess_data(raw).ok
           => _preprocess_data(_preprocess_data(raw).v) = _preprocess_data(raw)
    /\ (saved = "ok" /\ loaded # NotLoaded /\ loaded.ok)
           => _preprocess_data(loaded.v) = Ret(loaded.v)

\* C23's case: a payload that normalization rewrote, with an artist that
\* has tracks, was cached and read back
C23_Witness ==
    /\ saved = "ok"
    /\ loaded # NotLoaded
    /\ loaded.ok
    /\ Has(raw, "artists")
    /\ Has(raw, "tracks")
    /\ loaded.v # raw
    /\ \E i \in 1..Len(Get(loaded.v, "artists", EmptyDict).dict) :
           Get(Get(loaded.v, "artists", EmptyDict).dict[i].v, "track_count", I(0)).int >= 1

----------------------------------------------------------------------------
(* Properties of SpecDuration *)

TwoDigits(n) == Digits[(n \div 10) + 1] \o Digits[(n % 10) + 1]

\* C26: a duration of d whole seconds, d >= 0, is formatted as d div 60
\* unpadded, a colon, and d mod 60 padded to two digits (0 gives "0:00", 59
\* "0:59", 60 "1:00", 200 "3:20"); a null or missing duration gives "0:00".
C26_DurationIsMinutesAndSeconds ==
    formatted # NotFormatted =>
        /\ formatted.app.ok => formatted.app.v = formatted.dm
        /\ duration \in {None, Missing} => formatted.app = Ret(S("0:00"))
        /\ IsInt(duration) =>
               /\ formatted.app.ok
               /\ \E m \in 0..duration.int, sec \in 0..59 :
                      /\ 60 * m + sec = duration.int
                      /\ formatted.dm = S(ToStr(m) \o ":" \o TwoDigits(sec))
        /\ duration = I(0) => formatted.dm = S("0:00")
        /\ duration = I(59) => formatted.dm = S("0:59")
        /\ duration = I(60) => formatted.dm = S("1:00")
        /\ duration = I(200) => formatted.dm = S("3:20")

\* C26's case: a duration of at least a minute whose seconds need the padding
C26_Witness ==
    /\ formatted # NotFormatted
    /\ IsInt(duration)
    /\ duration.int = 65
    /\ formatted.dm = S("1:05")

----------------------------------------------------------------------------
(* Properties of SpecToken *)

C28_OnlyTheUsersOwnToken ==
    /\ (tm_call.op = "load" /\ tm_call.out.ok /\ tm_call.out.v # None) =>
           /\ last_saved # NoSave
           /\ last_saved.user = username
    /\ (last_saved # NoSave /\ last_saved.user # username) =>
           /\ tm_call.op = "load" => tm_call.out = Ret(None)
           /\ session = NoSessionHeld

\* C28's case: a token saved under one username, a session in it, and
\* load_token called by the process of another user
C28_Witness ==
    /\ tm_call.op = "load"
    /\ tm_call.out = Ret(None)
    /\ tm_file.exists
    /\ last_saved # NoSave
    /\ Has(last_saved.d, "user_id")
    /\ last_saved.user # username
    /\ last_saved.user # None
    /\ username # None
    /\ session = NoSessionHeld

\* what load_token would return in the current state
Loadable == load_token(tm_file, username)

\* C29: is_token_valid() is false when no token is loadable (none saved, or
\* the file deleted, and then load_token returns None), true when the token
\* has no expires_at, and otherwise true exactly when the time of the call is
\* earlier than expires_at - 300.
C29_ValidUntilTheBuffer ==
    /\ tm_call.op = "valid" =>
           /\ tm_call.out.ok
           /\ Loadable = Ret(None) => tm_call.out.v = FALSE
           /\ (Loadable # Ret(None) /\ Get(Loadable.v, "expires_at", None) = None) =>
                  tm_call.out.v = TRUE
           /\ (Loadable # Ret(None) /\ Get(Loadable.v, "expires_at", None) # None) =>
                  tm_call.out.v = (tm_call.at + 300 < Get(Loadable.v, "expires_at", None).int)
    /\ last_saved = NoSave =>
           /\ Loadable = Ret(None)
           /\ tm_call.op = "valid" => tm_call.out = Ret(FALSE)
    /\ (tm_call.op = "delete" /\ ~tm_file.exists) => Loadable = Ret(None)

\* C29's case: a loadable token inside the buffer before its expiry
C29_Witness ==
    /\ tm_call.op = "valid"
    /\ tm_call.out = Ret(FALSE)
    /\ Loadable # Ret(None)
    /\ Get(Loadable.v, "expires_at", None) # None
    /\ tm_call.at < Get(Loadable.v, "expires_at", None).int
    /\ tm_call.at + 300 >= Get(Loadable.v, "expires_at", None).int

----------------------------------------------------------------------------
(* Properties of SpecAuth *)

\* the reply to the login request of the last authenticate() has a user
ReplyHasUser == auth.posted = 1 /\ auth.reply.kind = "json" /\ Has(auth.reply.body, "user")

\* C30: a client without a session logs in at authenticate(), and when the
\* reply to the login has a user the call returns success, user_id, token
\* and streaming_server are those of the reply and the token manager holds
\* the session; a client with user_id and token gets success and posts no
\* request.
C30_AuthenticateLogsInOrReuses ==
    auth # NoAuth =>
        /\ (~HoldsSession(auth.held) /\ Truthy(username) /\ Truthy(password)) =>
               auth.posted = 1
        /\ (~HoldsSession(auth.held) /\ ReplyHasUser) =>
               /\ auth.status = "success"
               /\ session.user_id
                      = S(PyStr(Get(Get(auth.reply.body, "user", None), "id", None)))
               /\ session.token = Get(Get(auth.reply.body, "user", None), "token", None)
               /\ Has(auth.reply.body, "settings") =>
                      session.streaming_server
                          = Get(Get(auth.reply.body, "settings", None),
                                "streaming_server", None)
               /\ load_token(tm_file, username).ok
               /\ IsDict(load_token(tm_file, username).v)
               /\ Get(load_token(tm_file, username).v, "token", None) = session.token
               /\ Get(load_token(tm_file, username).v, "user_id", None) = session.user_id
        /\ HoldsSession(auth.held) =>
               /\ auth.status = "success"
               /\ auth.posted = 0
               /\ session = auth.held

\* C35: an authenticate() whose login returned status error leaves the
\* token and the user_id of the client as they were before it.
C35_FailedLoginLeavesNoSession ==
    (auth # NoAuth /\ auth.status = "error") =>
        /\ session.token = auth.held.token
        /\ session.user_id = auth.held.user_id

----------------------------------------------------------------------------
(* Further properties of SpecNorm *)

\* C32: the rows of every view projected from the data the fetching call of
\* load_library_async returns (the payload as the API gave it) equal the
\* rows projected from the data the next call returns, read from the cache
\* of that payload.
C32_FetchedAndCachedRowsAgree ==
    (saved = "ok" /\ loaded # NotLoaded /\ loaded.ok) =>
        \A c \in Collections : ViewRows(c, raw) = ViewRows(c, loaded.v)

----------------------------------------------------------------------------
(* Further properties of SpecUI *)

\* C34: selecting row i of the table acts on the entity whose row is shown
\* at index i, and never raises.
C34_SelectionActsOnTheRowShown ==
    selected # NoSelection =>
        /\ selected.out.ok
        /\ selected.out.v = selected.shown

----------------------------------------------------------------------------
(* Further properties of Spec *)

\* a call of load_library_async has written a complete snapshot to the cache
SnapshotCached ==
    \E d \in Callers : \E i \in 1..Len(steps[d]) : steps[d][i] = "written"

\* C33: a call of load_library_async goes to the API exactly when no
\* non-empty cache file exists as it is called, and once a snapshot has been
\* cached no later call goes to the API (the cache is never cleared here).
C33_NoFetchOnceCached ==
    [][\A c \in Callers :
          (pc[c] = "idle" /\ pc'[c] # "idle") =>
              /\ pc'[c] = "fetch" <=> ~_has_cached_data(file)
              /\ SnapshotCached => pc'[c] = "load_cache"]_vars

----------------------------------------------------------------------------
(* Further properties of SpecClient *)

\* C31: after a 401 for its library request get_library deletes the stored
\* token, and the request of the retry carries a token of a new login,
\* never the token the server has just rejected.
C31_RetryCarriesANewToken ==
    /\ \A i \in 1..(Len(sent) - 1) : sent[i + 1] # sent[i]
    /\ Len(sent) >= 2 =>
           \/ token_file = NoToken
           \/ token_file = NotAnObject
           \/ token_file.token # sent[1]

----------------------------------------------------------------------------
(* Properties of SpecPlayer *)

\* the last play() has returned and no stop() or play() has begun since
PlayReturned ==
    /\ main.at = "idle"
    /\ playback_thread # NoThread
    /\ ~threads[playback_thread].superseded

\* the threads of earlier play() calls
Earlier == (1..Len(threads)) \ {playback_thread}

\* C36: once play() for a new URL has returned, no playback thread of an
\* earlier play() is streaming or can come to stream.
C36_OnePlaybackLoop ==
    PlayReturned => \A k \in Earlier : threads[k].at \notin {"open", "loop"}

\* C37: after play() has returned True, no step of a playback thread of an
\* earlier play() changes state or current_track.
C37_EarlierThreadsLeaveTheState ==
    [][PlayReturned =>
          \A k \in Earlier :
              threads'[k] # threads[k] =>
                  /\ player_state' = player_state
                  /\ current_track' = current_track]_vars

\* C38: on_track_end is called only for a playback that played out on its
\* own, never for one that stop() ended or a later play() replaced.
C38_TrackEndOnlyAtTheEnd ==
    \A e \in track_ended : e.natural /\ ~e.superseded

----------------------------------------------------------------------------
(* Properties of SpecStream *)

\* C39: a read returns at most size bytes; what has been returned so far
\* is a prefix of the chunks joined in order; a read returns fewer than
\* size bytes only when the generator is exhausted.
C39_ReadsDeliverThePrefix ==
    last_read # NoRead =>
        /\ Len(last_read.data) <= last_read.size
        /\ IsPrefix(delivered, Concat(source.chunks))
        /\ Len(last_read.data) < last_read.size => source.pos = Len(source.chunks)

\* a later read that comes back short, with bytes of two chunks in it
C39_Witness ==
    /\ last_read # NoRead
    /\ last_read.size = 3
    /\ Len(last_read.data) = 2
    /\ last_read.data[1] # last_read.data[2]
    /\ Len(delivered) = 3
    /\ Len(source.chunks) = 2
    /\ Len(source.chunks[1]) = 2
    /\ Len(source.chunks[2]) = 1

====
